---- MODULE Spec2Model ----
(***************************************************************************)
(* Omnik inverter binary TCP codec (omnikinverter/tcp.py): frame           *)
(* unpacking, checksum validation and information-reply decoding, modelled *)
(* as the step machine of parse_messages driving the _unpack_messages      *)
(* generator over a byte buffer; and the clients around it: the TCP        *)
(* exchange and the HTTP session handling of OmnikInverter                 *)
(* (omnikinverter.py), OmnikTcpRequest (requests/tcp.py) and               *)
(* OmnikHttpRequest (requests/http.py), one step per await.                *)
(***************************************************************************)
EXTENDS Integers, Sequences, FiniteSets, TLC

VARIABLES
    serial_number,  \* parse_messages argument
    buf,            \* parse_messages argument `data` (the caller's buffer)
    data,           \* _unpack_messages local: the bytearray being consumed
    message_start,  \* _unpack_messages local: last popped start byte (-1: none yet)
    length,         \* _unpack_messages local: declared length + header size
    message,        \* _unpack_messages local: slice handed to _unpack_message
    cur,            \* tuple yielded to parse_messages (<<>> when none)
    nyield,         \* number of tuples the generator has yielded
    info,           \* parse_messages local: <<>> is None, <<m>> a mapping
    log,            \* set of LOGGER records emitted so far
    outcome,        \* how the call ended: nothing yet, return or raise
    pc,             \* position: "loop", "body", "resume", "exhausted", "done",
                    \* "inverter"; "pack", "packed" for a request being built;
                    \* "call" and the await a client method is suspended at
    flip,           \* input provenance: which byte of which frame was altered
    inverter,       \* how Inverter.from_tcp on the returned mapping ended
    previous,       \* outcome of an earlier call on the same buffer
    client,         \* the client object: class, source_type, credentials, session, _close_session
    sessions,       \* every aiohttp session that exists: id -> is it closed
    net,            \* the device and the TCP connection as the client meets them
    call,           \* the client method the caller awaits, and how many came before
    pending,        \* exception in flight while a finally block runs
    second          \* a second coroutine on the same client, run concurrently

vars == <<serial_number, buf, data, message_start, length, message, cur,
          nyield, info, log, outcome, pc, flip, inverter, previous,
          client, sessions, net, call, pending, second>>

\* what the codec's steps leave alone
client_vars == <<client, sessions, net, call, pending, second>>

----------------------------------------------------------------------------
(* Protocol constants, tcp.py lines 14-28 *)

MESSAGE_START == 104
MESSAGE_END == 22
MESSAGE_SEND_SEP == 64
MESSAGE_RECV_SEP == 65
MESSAGE_TYPE_INFORMATION_REQUEST == 48
MESSAGE_TYPE_INFORMATION_REPLY == 176
MESSAGE_TYPE_STRING == 240
UINT16_MAX == 65535
MESSAGE_HEADER_SIZE == 3 + 2 * 4 + 1
TRAILING_GARBAGE == 255
TEMPERATURE_OFFLINE == 65326

(* sizeof(_TcpData), sizeof(_TcpFirmwareStrings): packed ctypes layouts *)
SIZEOF_TcpData == 3 + 16 + 2 + 6 + 6 + 6 + 6 + 12 + 2 + 4 + 4 + 2 + 4 + 2 + 10
SIZEOF_TcpFirmwareStrings == 16 + 4 + 16 + 4

PacketInvalid == "OmnikInverterPacketInvalidError"

----------------------------------------------------------------------------
(* Outcomes of a call *)

NoOutcome == [kind |-> "none", exc |-> "", msg |-> "", args |-> <<>>, value |-> <<>>]
Raise(exc, msg, args) ==
    [kind |-> "raise", exc |-> exc, msg |-> msg, args |-> args, value |-> <<>>]
Return(v) ==
    [kind |-> "return", exc |-> "", msg |-> "", args |-> <<>>, value |-> <<v>>]

----------------------------------------------------------------------------
(* Byte helpers *)

Min(a, b) == IF a < b THEN a ELSE b

RECURSIVE SumRange(_, _, _)
SumRange(bytes, lo, hi) ==
    IF lo > hi THEN 0
    ELSE IF lo = hi THEN bytes[lo]
    ELSE LET mid == (lo + hi) \div 2
         IN SumRange(bytes, lo, mid) + SumRange(bytes, mid + 1, hi)

\* sum(message)
SumBytes(bytes) == SumRange(bytes, 1, Len(bytes))

\* sum(request_data) & 0xFF
ChecksumNoWrap(bytes) == SumBytes(bytes)
ChecksumLow7(bytes) == SumBytes(bytes) % 128
Checksum(bytes) == SumBytes(bytes) % 256

\* data[i:] with a 0-based start, as Python slices
SliceFrom(bytes, i) == SubSeq(bytes, i + 1, Len(bytes))

\* data[:n], clipped at the end of the buffer as Python slices are
SliceTo(bytes, n) == SubSeq(bytes, 1, Min(n, Len(bytes)))

\* An unsigned 32-bit quantity is kept as its two 16-bit halves <<high, low>>,
\* so that every value below 2^32 is representable
Wide(n) == <<n \div 65536, n % 65536>>

\* int.from_bytes(b, "little") for 4 bytes
IntFromBigEndian4(b) == <<b[1] * 256 + b[2], b[3] * 256 + b[4]>>
IntFromLittle4(b) == <<b[3] + b[4] * 256, b[1] + b[2] * 256>>

\* serial_number.to_bytes(4, "little")
ToBytesBig4(n) == <<n[1] \div 256, n[1] % 256, n[2] \div 256, n[2] % 256>>
ToBytesLittle4(n) == <<n[2] % 256, n[2] \div 256, n[1] % 256, n[1] \div 256>>

\* big-endian c_ushort / c_uint at a 0-based offset of the structure
U16(bytes, off) == bytes[off + 1] * 256 + bytes[off + 2]
U32(bytes, off) ==
    bytes[off + 1] * 16777216 + bytes[off + 2] * 65536
        + bytes[off + 3] * 256 + bytes[off + 4]

\* a c_char array field reads as the bytes before the first NUL
RECURSIVE CStrLen(_, _)
CStrLen(bytes, i) ==
    IF i > Len(bytes) \/ bytes[i] = 0 THEN i - 1 ELSE CStrLen(bytes, i + 1)
CharArray(bytes, off, size) ==
    LET raw == SubSeq(bytes, off + 1, off + size)
    IN SubSeq(raw, 1, CStrLen(raw, 1))

\* bytes.decode("utf-8"), strict: the code points, or a failure
RECURSIVE Utf8From(_, _)
Utf8From(b, i) ==
    IF i > Len(b) THEN [ok |-> TRUE, text |-> <<>>]
    ELSE
      LET c == b[i]
          cont(j) == j <= Len(b) /\ b[j] >= 128 /\ b[j] <= 191
          n == IF c < 128 THEN 1
               ELSE IF c >= 194 /\ c <= 223 THEN 2
               ELSE IF c >= 224 /\ c <= 239 THEN 3
               ELSE IF c >= 240 /\ c <= 244 THEN 4
               ELSE 0
          wellformed ==
              CASE n = 1 -> TRUE
                [] n = 2 -> cont(i + 1)
                [] n = 3 -> /\ cont(i + 1) /\ cont(i + 2)
                            /\ (c = 224 => b[i + 1] >= 160)
                            /\ (c = 237 => b[i + 1] <= 159)
                [] n = 4 -> /\ cont(i + 1) /\ cont(i + 2) /\ cont(i + 3)
                            /\ (c = 240 => b[i + 1] >= 144)
                            /\ (c = 244 => b[i + 1] <= 143)
                [] OTHER -> FALSE
          cp == CASE n = 1 -> c
                  [] n = 2 -> (c - 192) * 64 + (b[i + 1] - 128)
                  [] n = 3 -> (c - 224) * 4096 + (b[i + 1] - 128) * 64
                                + (b[i + 2] - 128)
                  [] OTHER -> (c - 240) * 262144 + (b[i + 1] - 128) * 4096
                                + (b[i + 2] - 128) * 64 + (b[i + 3] - 128)
      IN IF ~wellformed THEN [ok |-> FALSE, text |-> <<>>]
         ELSE LET r == Utf8From(b, i + n)
              IN IF r.ok THEN [ok |-> TRUE, text |-> <<cp>> \o r.text] ELSE r
Utf8Decode(b) == Utf8From(b, 1)

----------------------------------------------------------------------------
(* Payload Parser: _AcOutput, _TcpData.parse, _TcpFirmwareStrings.parse *)

\* Python None, and a number kept as raw value over its divisor (v * 0.1 is <<v, 10>>)
None == <<>>
Scaled(v, den) == <<v, den>>

\* 0-based offsets of the packed big-endian _TcpData fields
OFF_padding0 == 0
OFF_serial_number == 3
OFF_temperature == 19
OFF_dc_input_voltage == 21
OFF_dc_input_current == 27
OFF_ac_output_current == 33
OFF_ac_output_voltage == 39
OFF_ac_output == 45
OFF_solar_energy_today == 57
OFF_solar_energy_total == 59
OFF_solar_hours_total == 63
OFF_inverter_active == 67
OFF_padding1 == 69
OFF_unknown0 == 73
OFF_padding2 == 75
\* 0-based offsets inside _TcpFirmwareStrings
OFF_firmware == 0
OFF_firmware_slave == 20

\* _AcOutput.get_power / get_frequency
get_power(power) == IF power = UINT16_MAX THEN None ELSE Scaled(power, 1)
get_frequency(frequency) ==
    IF frequency = UINT16_MAX THEN None ELSE Scaled(frequency, 100)

\* list_divide_10 applied to one element, and to a c_ushort * 3 array
divide_10_unchecked(v) == Scaled(v, 10)
divide_10(v) == IF v = UINT16_MAX THEN None ELSE Scaled(v, 10)
list_divide_10(bytes, off) == [i \in 1..3 |-> divide_10(U16(bytes, off + 2 * (i - 1)))]

\* int_to_bool: a dict lookup, KeyError outside {0, 1}
int_to_bool_has(num) == num \in {0, 1}
int_to_bool(num) == num = 1

temperature_to_float_uint16(temp) ==
    IF temp = UINT16_MAX THEN None ELSE Scaled(temp, 10)
temperature_to_float(temp) ==
    IF temp = TEMPERATURE_OFFLINE THEN None ELSE Scaled(temp, 10)

Parsed(v, l) == [raised |-> FALSE, err |-> NoOutcome, value |-> <<v>>, log |-> l]
ParseFailed(e, l) == [raised |-> TRUE, err |-> e, value |-> <<>>, log |-> l]

\* _TcpData.parse(data), offset 0
TcpData_parse(bytes) ==
    IF Len(bytes) < SIZEOF_TcpData
    THEN ParseFailed(Raise("ValueError", "Buffer size too small",
                           <<Len(bytes), SIZEOF_TcpData>>), {})
    ELSE
      LET unknown0 == U16(bytes, OFF_unknown0)
          warn ==
              (IF unknown0 \notin {0, UINT16_MAX}
                 THEN {"warning: Unexpected unknown0"} ELSE {})
              \cup (IF CharArray(bytes, OFF_padding0, 3) # <<129, 2, 1>>
                      THEN {"warning: Unexpected padding0"} ELSE {})
              \cup (IF SumBytes(SubSeq(bytes, OFF_padding1 + 1, OFF_padding1 + 4)) # 0
                      THEN {"warning: Unexpected padding1"} ELSE {})
              \cup (IF SumBytes(SubSeq(bytes, OFF_padding2 + 1, OFF_padding2 + 10)) # 0
                      THEN {"warning: Unexpected padding2"} ELSE {})
          sn == Utf8Decode(CharArray(bytes, OFF_serial_number, 16))
          active == U16(bytes, OFF_inverter_active)
      IN IF ~sn.ok
           THEN ParseFailed(Raise("UnicodeDecodeError", "utf-8", <<>>), warn)
         ELSE IF ~int_to_bool_has(active)
           THEN ParseFailed(Raise("KeyError", "int_to_bool", <<active>>), warn)
         ELSE Parsed(
           [serial_number |-> sn.text,
            temperature |-> temperature_to_float(U16(bytes, OFF_temperature)),
            dc_input_voltage |-> list_divide_10(bytes, OFF_dc_input_voltage),
            dc_input_current |-> list_divide_10(bytes, OFF_dc_input_current),
            ac_output_current |-> list_divide_10(bytes, OFF_ac_output_current),
            ac_output_voltage |-> list_divide_10(bytes, OFF_ac_output_voltage),
            ac_output_frequency |->
                [i \in 1..3 |-> get_frequency(U16(bytes, OFF_ac_output + 4 * (i - 1)))],
            ac_output_power |->
                [i \in 1..3 |-> get_power(U16(bytes, OFF_ac_output + 4 * (i - 1) + 2))],
            solar_energy_today |-> Scaled(U16(bytes, OFF_solar_energy_today), 100),
            solar_energy_total |-> Scaled(U32(bytes, OFF_solar_energy_total), 10),
            solar_hours_total |-> U32(bytes, OFF_solar_hours_total),
            inverter_active |-> int_to_bool(active)], warn)

\* _TcpFirmwareStrings.parse(data, offset)
TcpFirmwareStrings_parse(bytes, offset) ==
    IF Len(bytes) < offset + SIZEOF_TcpFirmwareStrings
    THEN ParseFailed(Raise("ValueError", "Buffer size too small",
                           <<Len(bytes), offset + SIZEOF_TcpFirmwareStrings>>), {})
    ELSE
      LET fw == Utf8Decode(CharArray(bytes, offset + OFF_firmware, 16))
          fws == Utf8Decode(CharArray(bytes, offset + OFF_firmware_slave, 16))
      IN IF ~fw.ok \/ ~fws.ok
           THEN ParseFailed(Raise("UnicodeDecodeError", "utf-8", <<>>), {})
         ELSE Parsed([firmware |-> fw.text, firmware_slave |-> fws.text], {})

\* line 358: only parse firmware strings if available
firmware_available_exact(n) == n = SIZEOF_TcpData + SIZEOF_TcpFirmwareStrings
firmware_available(n) == n >= SIZEOF_TcpData + SIZEOF_TcpFirmwareStrings

\* _parse_information_reply(data)
parse_information_reply(bytes) ==
    LET sizeWarn ==
            IF Len(bytes) \notin {SIZEOF_TcpData,
                                  SIZEOF_TcpData + SIZEOF_TcpFirmwareStrings}
            THEN {"warning: Unrecognized INFORMATION_REPLY size"} ELSE {}
        result == TcpData_parse(bytes)
    IN IF result.raised THEN ParseFailed(result.err, sizeWarn \cup result.log)
       ELSE IF firmware_available(Len(bytes))
         THEN LET fw == TcpFirmwareStrings_parse(bytes, SIZEOF_TcpData)
              IN IF fw.raised THEN ParseFailed(fw.err, sizeWarn \cup result.log)
                 ELSE Parsed(fw.value[1] @@ result.value[1], sizeWarn \cup result.log)
       ELSE Parsed(result.value[1], sizeWarn \cup result.log)

----------------------------------------------------------------------------
(* Frame Codec: _pack_message, create_information_request *)

\* serial_number.to_bytes(4, "little") accepts 0 .. 2^32 - 1
fits_4_bytes(n) == n[1] \in 0..65535 /\ n[2] \in 0..65535

\* _pack_message(message_type, serial_number, message)
pack_message(message_type, serial, msg) ==
    IF ~fits_4_bytes(serial)
    THEN Raise("OverflowError", "int too big to convert", <<>>)
    ELSE LET serial_bytes == ToBytesLittle4(serial)
             request_data == <<Len(msg), MESSAGE_SEND_SEP, message_type>>
                                 \o serial_bytes \o serial_bytes \o msg
             checksum == Checksum(request_data)
         IN Return(<<MESSAGE_START>> \o request_data \o <<checksum, MESSAGE_END>>)

create_information_request(serial) ==
    pack_message(MESSAGE_TYPE_INFORMATION_REQUEST, serial, <<1, 0>>)

----------------------------------------------------------------------------
(* Frame Codec: _unpack_message, _unpack_messages *)

\* line 210: the byte after the length must be the receive separator
is_recv_sep_or_send(b) == b \in {MESSAGE_RECV_SEP, MESSAGE_SEND_SEP}
is_recv_sep(b) == b = MESSAGE_RECV_SEP

\* line 248: a message begins with the start marker
is_message_start_any(b) == TRUE
is_message_start(b) == b = MESSAGE_START

Unpacked(t) == [raised |-> FALSE, err |-> NoOutcome, tuple |-> t]
UnpackFailed(e) == [raised |-> TRUE, err |-> e, tuple |-> <<>>]

\* _unpack_message(message): message holds length + MESSAGE_HEADER_SIZE bytes
unpack_message(msg) ==
    LET message_checksum == msg[Len(msg)]
        popped == SubSeq(msg, 1, Len(msg) - 1)
        checksum == Checksum(popped)
        separator == popped[2]
        message_type == popped[3]
        rest == SliceFrom(popped, 3)
        serial0 == IntFromLittle4(SubSeq(rest, 1, 4))
        serial1 == IntFromLittle4(SubSeq(rest, 5, 8))
    IN IF message_checksum # checksum
         THEN UnpackFailed(Raise(PacketInvalid, "Checksum mismatch",
                                 <<checksum, message_checksum>>))
       ELSE IF ~is_recv_sep(separator)
         THEN UnpackFailed(Raise(PacketInvalid, "Invalid receiver separator", <<>>))
       ELSE IF serial0 # serial1
         THEN UnpackFailed(Raise(PacketInvalid, "Serial number mismatch in reply",
                                 <<serial0, serial1>>))
       ELSE Unpacked(<<message_type, serial0, SliceFrom(rest, 8)>>)

GenStep(k, e, t, d, ms, ln, m) ==
    [kind |-> k, err |-> e, tuple |-> t, data |-> d,
     message_start |-> ms, length |-> ln, message |-> m]

\* line 239: all(d == 0xFF for d in data)
all_garbage_anything(d) == TRUE
all_garbage(d) == \A i \in 1..Len(d) : d[i] = TRAILING_GARBAGE

\* _unpack_messages from the top of its while loop to the next yield,
\* return or raise (lines 234-262)
unpack_messages_next(d, ln, m) ==
    IF Len(d) = 0 THEN GenStep("stop", NoOutcome, <<>>, d, -1, ln, m)
    ELSE
      LET start == Head(d)
          d1 == Tail(d)
      IN IF start = TRAILING_GARBAGE
           THEN IF ~all_garbage(d1)
                  THEN GenStep("raise",
                         Raise(PacketInvalid, "(Next) message starts with 0xFF but the remainder is not strictly 0xFF", <<>>),
                         <<>>, d1, start, ln, m)
                  ELSE GenStep("stop", NoOutcome, <<>>, d1, start, ln, m)
         ELSE IF ~is_message_start(start)
           THEN GenStep("raise", Raise(PacketInvalid, "Invalid start byte", <<start>>),
                        <<>>, d1, start, ln, m)
         ELSE IF Len(d1) = 0
           THEN GenStep("raise", Raise("IndexError", "bytearray index out of range", <<>>),
                        <<>>, d1, start, ln, m)
         ELSE
           LET newlen == d1[1] + MESSAGE_HEADER_SIZE
               slice == SliceTo(d1, newlen)
           IN IF Len(slice) # newlen
                THEN GenStep("raise",
                       Raise(PacketInvalid, "Could only read", <<Len(slice), newlen>>),
                       <<>>, d1, start, newlen, slice)
              ELSE LET u == unpack_message(slice)
                   IN IF u.raised
                        THEN GenStep("raise", u.err, <<>>, d1, start, newlen, slice)
                        ELSE GenStep("yield", NoOutcome, u.tuple, d1, start, newlen, slice)

\* _unpack_messages resumed after a yield: strip the frame and its end byte
\* (lines 264-268)
unpack_messages_resume_keep_end(d, ln) ==
    [raised |-> FALSE, data |-> SliceFrom(d, ln), err |-> NoOutcome]
unpack_messages_resume(d, ln) ==
    LET d2 == SliceFrom(d, ln)
    IN IF Len(d2) = 0
         THEN [raised |-> TRUE, data |-> d2,
               err |-> Raise("IndexError", "pop from empty bytearray", <<>>)]
       ELSE IF Head(d2) # MESSAGE_END
         THEN [raised |-> TRUE, data |-> Tail(d2),
               err |-> Raise(PacketInvalid, "Invalid end byte", <<>>)]
       ELSE [raised |-> FALSE, data |-> Tail(d2), err |-> NoOutcome]

----------------------------------------------------------------------------
(* parse_messages *)

\* lines 312-320: a reply serial that differs from the request's is only logged
serial_check_silent(reply_serial_number, serial) ==
    [raised |-> FALSE, err |-> NoOutcome, log |-> {}]
serial_check_strict(reply_serial_number, serial) ==
    IF reply_serial_number # serial
    THEN [raised |-> TRUE, log |-> {},
          err |-> Raise(PacketInvalid, "Replied serial number not equal to request",
                        <<reply_serial_number, serial>>)]
    ELSE [raised |-> FALSE, log |-> {}, err |-> NoOutcome]
serial_check(reply_serial_number, serial) ==
    [raised |-> FALSE, err |-> NoOutcome,
     log |-> IF reply_serial_number # serial
               THEN {"debug: Replied serial number not equal to request"} ELSE {}]

\* lines 322-331: the if / elif / else over the message type
message_kind_lenient(message_type) ==
    IF message_type = MESSAGE_TYPE_INFORMATION_REPLY THEN "information_reply"
    ELSE "string"
message_kind(message_type) ==
    IF message_type = MESSAGE_TYPE_INFORMATION_REPLY THEN "information_reply"
    ELSE IF message_type = MESSAGE_TYPE_STRING THEN "string"
    ELSE "unknown"

Handled(i, l) == [raised |-> FALSE, err |-> NoOutcome, info |-> i, log |-> l]
HandleFailed(e, i, l) == [raised |-> TRUE, err |-> e, info |-> i, log |-> l]

\* line 325: info = _parse_information_reply(message)
assign_info_once(inf, value) == IF inf = None THEN value ELSE inf
assign_info(inf, value) == value

\* the body of the for loop of parse_messages (lines 312-336)
parse_messages_body(serial, inf, t) ==
    LET message_type == t[1]
        reply_serial_number == t[2]
        payload == t[3]
        sc == serial_check(reply_serial_number, serial)
    IN IF sc.raised THEN HandleFailed(sc.err, inf, sc.log)
       ELSE IF message_kind(message_type) = "information_reply"
         THEN LET multi == IF inf # None
                             THEN {"warning: Omnik sent multiple INFORMATION_REPLY messages"}
                             ELSE {}
                  r == parse_information_reply(payload)
              IN IF r.raised THEN HandleFailed(r.err, inf, sc.log \cup multi \cup r.log)
                 ELSE Handled(assign_info(inf, r.value), sc.log \cup multi \cup r.log)
       ELSE IF message_kind(message_type) = "string"
         THEN IF Utf8Decode(payload).ok
                THEN Handled(inf, sc.log \cup {"warning: Omnik sent text message"})
                ELSE HandleFailed(Raise("UnicodeDecodeError", "utf-8", <<>>), inf, sc.log)
       ELSE HandleFailed(Raise(PacketInvalid, "Unknown Omnik message type", <<message_type>>),
                         inf, sc.log)

\* after the loop (lines 338-342)
parse_messages_end(inf) ==
    IF inf = None
    THEN Raise(PacketInvalid, "None of the messages contained an information reply!", <<>>)
    ELSE Return(inf[1])

\* parse_messages(serial, bytes) run to completion: its return value or error
RECURSIVE parse_messages_from(_, _, _)
parse_messages_from(serial, d, inf) ==
    LET g == unpack_messages_next(d, 0, <<>>)
    IN IF g.kind = "raise" THEN g.err
       ELSE IF g.kind = "stop" THEN parse_messages_end(inf)
       ELSE LET h == parse_messages_body(serial, inf, g.tuple)
            IN IF h.raised THEN h.err
               ELSE LET r == unpack_messages_resume(g.data, g.length)
                    IN IF r.raised THEN r.err
                       ELSE parse_messages_from(serial, r.data, h.info)
parse_messages(serial, bytes) == parse_messages_from(serial, bytes, None)

----------------------------------------------------------------------------
(* models.py: the Inverter record built from a TCP reply *)

\* the dataclass fields without a default value, other than those that
\* from_tcp passes itself (models.py lines 14-21)
InverterRequired ==
    {"serial_number", "firmware", "firmware_slave",
     "solar_energy_today", "solar_energy_total"}

\* models.py 203-204: what one element of ac_output_power adds to the sum;
\* `if p is not None` leaves the absent ones out
power_value_sentinel(p) == IF p = None THEN UINT16_MAX ELSE p[1]
power_value(p) == IF p = None THEN 0 ELSE p[1]

\* sum(p for p in data["ac_output_power"] if p is not None)
RECURSIVE SumPower(_, _)
SumPower(powers, n) ==
    IF n = 0 THEN 0
    ELSE SumPower(powers, n - 1) + power_value(powers[n])

\* Inverter.from_tcp(data): Inverter(**data, model=None, ...)
Inverter_from_tcp(d) ==
    IF ~(InverterRequired \subseteq DOMAIN d)
    THEN Raise("TypeError", "Inverter.__init__() missing required positional arguments",
               <<InverterRequired \ DOMAIN d>>)
    ELSE Return(d @@ [model |-> None,
                      solar_rated_power |-> None,
                      solar_current_power |->
                          SumPower(d.ac_output_power, Len(d.ac_output_power)),
                      alarm_code |-> None])

----------------------------------------------------------------------------
(* Input buffers: reply frames assembled byte by byte, as the tests do *)

MaxPrefixFrames == 1
MaxTailLen == 2

Pad(bytes, n) == bytes \o [i \in 1..(n - Len(bytes)) |-> 0]
BE16(v) == <<v \div 256, v % 256>>
BE32(v) == <<v \div 16777216, (v \div 65536) % 256, (v \div 256) % 256, v % 256>>

\* the wire image of a _TcpData structure holding the given raw field values
TcpDataBytes(sn, temp, dcv, dci, acc, acv, freq, power, today, total, hours, active) ==
    <<129, 2, 1>> \o Pad(sn, 16) \o BE16(temp)
        \o BE16(dcv[1]) \o BE16(dcv[2]) \o BE16(dcv[3])
        \o BE16(dci[1]) \o BE16(dci[2]) \o BE16(dci[3])
        \o BE16(acc[1]) \o BE16(acc[2]) \o BE16(acc[3])
        \o BE16(acv[1]) \o BE16(acv[2]) \o BE16(acv[3])
        \o BE16(freq[1]) \o BE16(power[1])
        \o BE16(freq[2]) \o BE16(power[2])
        \o BE16(freq[3]) \o BE16(power[3])
        \o BE16(today) \o BE32(total) \o BE32(hours) \o BE16(active)
        \o <<0, 0, 0, 0>> \o BE16(0) \o Pad(<<>>, 10)

\* the wire image of a _TcpFirmwareStrings structure
TcpFirmwareBytes(fw, fws) == Pad(fw, 16) \o <<0, 0, 0, 0>> \o Pad(fws, 16) \o <<0, 0, 0, 0>>

\* "NLDN01" / "NL1-V1" / "V5.3"
SampleSerial == <<78, 76, 68, 78, 48, 49>>
SampleFirmware == <<78, 76, 49, 45, 86, 49>>
SampleFirmwareSlave == <<86, 53, 46, 51>>

PayloadEmpty == <<>>
PayloadText == <<51>>
PayloadBadText == <<255>>
PayloadInfo ==
    TcpDataBytes(SampleSerial, 435, <<1876, 65535, 65535>>, <<5, 65535, 65535>>,
                 <<7, 65535, 65535>>, <<2364, 65535, 65535>>,
                 <<5003, 65535, 65535>>, <<2615, 65535, 65535>>,
                 740, 150965, 17329, 1)
PayloadInfoOffline ==
    TcpDataBytes(SampleSerial, 65326, <<0, 0, 65535>>, <<0, 0, 65535>>,
                 <<0, 65535, 65535>>, <<0, 65535, 65535>>,
                 <<0, 65535, 65535>>, <<0, 65535, 65535>>,
                 4, 10531, 0, 0)
PayloadInfoFirmware == PayloadInfo \o TcpFirmwareBytes(SampleFirmware, SampleFirmwareSlave)
PayloadInfoActive2 ==
    TcpDataBytes(SampleSerial, 435, <<1876, 65535, 65535>>, <<5, 65535, 65535>>,
                 <<7, 65535, 65535>>, <<2364, 65535, 65535>>,
                 <<5003, 65535, 65535>>, <<2615, 65535, 65535>>,
                 740, 150965, 17329, 2)
PayloadInfoShort == SubSeq(PayloadInfo, 1, SIZEOF_TcpData - 1)

Payloads ==
    {PayloadEmpty, PayloadText, PayloadBadText, PayloadInfo, PayloadInfoFirmware,
     PayloadInfoActive2, PayloadInfoShort}

\* one frame: start marker, header, both serial copies, payload, checksum
\* (off by ckdelta), then the bytes put where the end marker belongs
Frame(sep, type, s0, s1, payload, ckdelta, endbytes) ==
    LET body == <<Len(payload), sep, type>> \o ToBytesLittle4(Wide(s0))
                    \o ToBytesLittle4(Wide(s1)) \o payload
    IN <<MESSAGE_START>> \o body \o <<(SumBytes(body) + ckdelta) % 256>> \o endbytes

ValidFrame(type, serial, payload) ==
    Frame(MESSAGE_RECV_SEP, type, serial, serial, payload, 0, <<MESSAGE_END>>)

SerialArgs == {Wide(1), Wide(2)}
FrameSerials == {Wide(1), Wide(256)}
FrameTypes == {MESSAGE_TYPE_INFORMATION_REPLY, MESSAGE_TYPE_STRING, 0}
Separators == {MESSAGE_RECV_SEP, MESSAGE_SEND_SEP}
TailBytes == {MESSAGE_START, TRAILING_GARBAGE, 0}

\* frames in which any of the validation gates may fail
FaultFrames ==
    {Frame(sep, type, ss[1], ss[2], payload, ckdelta, <<e>>) :
        sep \in Separators, type \in FrameTypes,
        ss \in {<<1, 1>>, <<1, 256>>, <<256, 256>>},
        payload \in Payloads, ckdelta \in {0, 1}, e \in {MESSAGE_END, 0}}

ValidLastFrames ==
    {ValidFrame(type, 1, payload) : type \in FrameTypes, payload \in Payloads}

PrefixFrames ==
    {ValidFrame(MESSAGE_TYPE_STRING, 1, PayloadText),
     ValidFrame(MESSAGE_TYPE_INFORMATION_REPLY, 256, PayloadInfoOffline)}

RECURSIVE Prefixes(_)
Prefixes(n) ==
    IF n = 0 THEN {<<>>}
    ELSE LET P == Prefixes(n - 1) IN P \cup {p \o f : p \in P, f \in PrefixFrames}

RECURSIVE Tails(_)
Tails(n) ==
    IF n = 0 THEN {<<>>}
    ELSE LET T == Tails(n - 1) IN T \cup {t \o <<b>> : t \in T, b \in TailBytes}

\* a frame cut short at every possible place
CutFrames ==
    {ValidFrame(MESSAGE_TYPE_STRING, 1, PayloadEmpty),
     ValidFrame(MESSAGE_TYPE_STRING, 1, PayloadText),
     ValidFrame(MESSAGE_TYPE_INFORMATION_REPLY, 1, PayloadInfo)}
Cuts == {SliceTo(f, k) : f \in CutFrames, k \in 0..(Len(PayloadInfo) + 13)}

\* a frame of unknown type ahead of an information reply
UnknownThenInfo ==
    ValidFrame(0, 1, PayloadEmpty)
        \o ValidFrame(MESSAGE_TYPE_INFORMATION_REPLY, 1, PayloadInfo)

LastParts ==
    FaultFrames \cup Cuts \cup Tails(MaxTailLen) \cup {UnknownThenInfo}
        \cup {f \o t : f \in ValidLastFrames, t \in Tails(MaxTailLen)}

Buffers == {p \o x : p \in Prefixes(MaxPrefixFrames), x \in LastParts}

----------------------------------------------------------------------------
(* The call parse_messages(serial_number, buf) as a step machine *)

\* no second coroutine
NoTask ==
    [name |-> "none", n |-> 0, pc |-> "done", uses |-> None,
     pending |-> NoOutcome, outcome |-> NoOutcome]

\* the client around a codec call: OmnikInverter.inverter() with source_type
\* "tcp", whose connection has been read and closed
ClientIdle ==
    /\ client = [klass |-> "OmnikInverter", source_type |-> "tcp",
                 credentials |-> FALSE, session |-> None, close_session |-> FALSE]
    /\ sessions = <<>>
    /\ net = [peer |-> "reply", connection |-> "closed", opened |-> 1,
              written |-> <<>>, sent |-> 0, elapsed |-> 0, failure |-> "none"]
    /\ call = [name |-> "inverter", n |-> 1, uses |-> None]
    /\ pending = NoOutcome
    /\ second = NoTask

Start(bytes) ==
    /\ buf = bytes
    /\ data = bytes                 \* bytearray(data): the generator's own copy
    /\ message_start = -1
    /\ length = 0
    /\ message = <<>>
    /\ cur = <<>>
    /\ nyield = 0
    /\ info = None
    /\ log = {}
    /\ outcome = NoOutcome
    /\ inverter = NoOutcome
    /\ previous = NoOutcome
    /\ ClientIdle
    /\ pc = "loop"

\* flip.pos counts from the frame's start marker (pos 1 is the length byte);
\* flip.base is the offset of that frame in buf; pos 0 means nothing was altered
NoFlip == [base |-> 0, pos |-> 0, old |-> 0]

Init ==
    /\ serial_number \in SerialArgs
    /\ \E bytes \in Buffers : Start(bytes)
    /\ flip = NoFlip

\* line 311: the generator is given bytearray(data), a copy, so what it pops
\* from its own data never shows in the caller's buffer
caller_data_shared(bytes, d) == d
caller_data(bytes, d) == bytes

\* the for statement asks the generator for the next tuple
UnpackMessagesNext ==
    /\ pc = "loop"
    /\ LET g == unpack_messages_next(data, length, message)
       IN /\ data' = g.data
          /\ message_start' = g.message_start
          /\ length' = g.length
          /\ message' = g.message
          /\ cur' = g.tuple
          /\ nyield' = IF g.kind = "yield" THEN nyield + 1 ELSE nyield
          /\ outcome' = g.err
          /\ pc' = CASE g.kind = "yield" -> "body"
                     [] g.kind = "stop" -> "exhausted"
                     [] OTHER -> "done"
    /\ buf' = caller_data(buf, data')
    /\ UNCHANGED <<serial_number, info, log, flip, inverter, previous,
                   client_vars>>

\* the loop body handles the yielded tuple
ParseMessagesBody ==
    /\ pc = "body"
    /\ LET h == parse_messages_body(serial_number, info, cur)
       IN /\ info' = h.info
          /\ log' = log \cup h.log
          /\ outcome' = h.err
          /\ pc' = IF h.raised THEN "done" ELSE "resume"
    /\ UNCHANGED <<serial_number, buf, data, message_start, length, message,
                   cur, nyield, flip, inverter, previous,
                   client_vars>>

\* the generator continues after its yield
UnpackMessagesResume ==
    /\ pc = "resume"
    /\ LET r == unpack_messages_resume(data, length)
       IN /\ data' = r.data
          /\ outcome' = r.err
          /\ pc' = IF r.raised THEN "done" ELSE "loop"
    /\ buf' = caller_data(buf, data')
    /\ UNCHANGED <<serial_number, message_start, length, message, cur,
                   nyield, info, log, flip, inverter, previous,
                   client_vars>>

\* the generator is exhausted: parse_messages returns or raises
ParseMessagesEnd ==
    /\ pc = "exhausted"
    /\ outcome' = parse_messages_end(info)
    /\ pc' = "done"
    /\ UNCHANGED <<serial_number, buf, data, message_start, length, message,
                   cur, nyield, info, log, flip, inverter, previous,
                   client_vars>>

\* OmnikInverter.inverter() hands the returned mapping to Inverter.from_tcp
InverterFromTcp ==
    /\ pc = "done"
    /\ call.name = "inverter"
    /\ client.source_type = "tcp"
    /\ outcome.kind = "return"
    /\ inverter' = Inverter_from_tcp(outcome.value[1])
    /\ pc' = "inverter"
    /\ UNCHANGED <<serial_number, buf, data, message_start, length, message,
                   cur, nyield, info, log, outcome, flip, previous,
                   client_vars>>

Next ==
    \/ UnpackMessagesNext
    \/ ParseMessagesBody
    \/ UnpackMessagesResume
    \/ ParseMessagesEnd
    \/ InverterFromTcp

Spec == Init /\ [][Next]_vars

----------------------------------------------------------------------------
(* Inputs for the single-byte-change property: a valid frame, among other  *)
(* frames, with one byte between start marker and checksum replaced        *)

FlipFrames ==
    {ValidFrame(MESSAGE_TYPE_STRING, 1, PayloadEmpty),
     ValidFrame(MESSAGE_TYPE_STRING, 1, PayloadText),
     ValidFrame(MESSAGE_TYPE_INFORMATION_REPLY, 256, PayloadInfo)}
FlipTails == {<<>>, <<TRAILING_GARBAGE>>}

\* every other byte value for a short frame, a few for the long one
NewValues(f, pos) ==
    IF pos = 0 THEN {f[1]}
    ELSE LET old == f[pos + 1]
         IN (IF Len(f) <= 16 THEN 0..255
             ELSE {0, MESSAGE_END, MESSAGE_START, TRAILING_GARBAGE, (old + 1) % 256,
                   (old + 128) % 256, (old + 255) % 256}) \ {old}

InitFlip ==
    /\ serial_number = Wide(1)
    /\ \E p \in Prefixes(MaxPrefixFrames), f \in FlipFrames, t \in FlipTails :
         \E pos \in 0..(Len(f) - 3) :
           \E v \in NewValues(f, pos) :
             /\ Start(p \o [f EXCEPT ![pos + 1] = v] \o t)
             /\ flip = [base |-> Len(p), pos |-> pos, old |-> f[pos + 1]]

SpecFlip == InitFlip /\ [][Next]_vars

----------------------------------------------------------------------------
(* Inputs for the decoding properties: one information reply whose raw     *)
(* field values and payload length vary                                    *)

\* raw 16-bit values around the sentinels and the byte boundaries
RawSamples == {0, 1, 255, 256, 32767, 32768, 65279, 65280, 65326, 65534, 65535}

\* the 18 sentinel-bearing 16-bit slots in wire order: dc_input_voltage,
\* dc_input_current, ac_output_current, ac_output_voltage (3 each), then
\* frequency and power of each of the 3 ac_output pairs
Slots == 1..18
BaseRaws == [k \in Slots |-> 1000 + k]

DecodePayload(raws, temp, active) ==
    TcpDataBytes(SampleSerial, temp,
                 <<raws[1], raws[2], raws[3]>>, <<raws[4], raws[5], raws[6]>>,
                 <<raws[7], raws[8], raws[9]>>, <<raws[10], raws[11], raws[12]>>,
                 <<raws[13], raws[15], raws[17]>>, <<raws[14], raws[16], raws[18]>>,
                 740, 150965, 17329, active)

TemperatureSamples == {435, TEMPERATURE_OFFLINE, UINT16_MAX}
ActiveSamples == {0, 1, 2, 256, UINT16_MAX}

\* payload lengths around sizeof(_TcpData) and sizeof(_TcpData) +
\* sizeof(_TcpFirmwareStrings), up to the largest a length byte can declare
PayloadLengths ==
    {0, 1, SIZEOF_TcpData - 1, SIZEOF_TcpData, SIZEOF_TcpData + 1,
     SIZEOF_TcpData + SIZEOF_TcpFirmwareStrings - 1,
     SIZEOF_TcpData + SIZEOF_TcpFirmwareStrings,
     SIZEOF_TcpData + SIZEOF_TcpFirmwareStrings + 1, 255}

DecodePayloads ==
    {DecodePayload([BaseRaws EXCEPT ![k] = v], t, 1) :
        k \in Slots, v \in RawSamples, t \in TemperatureSamples}
    \cup {DecodePayload(BaseRaws, t, a) : t \in RawSamples, a \in ActiveSamples}
    \cup {DecodePayload([k \in Slots |-> UINT16_MAX], t, 0) : t \in TemperatureSamples}

LengthPayloads ==
    {SliceTo(Pad(p \o TcpFirmwareBytes(SampleFirmware, SampleFirmwareSlave), 255), n) :
        p \in {PayloadInfo, PayloadInfoOffline}, n \in PayloadLengths}

InitDecode ==
    /\ serial_number = Wide(1)
    /\ \E p \in DecodePayloads \cup LengthPayloads :
         Start(ValidFrame(MESSAGE_TYPE_INFORMATION_REPLY, 1, p))
    /\ flip = NoFlip

SpecDecode == InitDecode /\ [][Next]_vars

\* replies with every combination of present and absent output powers, with
\* and without the firmware section
PowerSamples == {0, 1, 32768, 65534, UINT16_MAX}

PowerPayloads ==
    {DecodePayload([BaseRaws EXCEPT ![14] = a, ![16] = b, ![18] = c], 435, 1) \o fw :
        a \in PowerSamples, b \in PowerSamples, c \in PowerSamples,
        fw \in {<<>>, TcpFirmwareBytes(SampleFirmware, SampleFirmwareSlave)}}

InitInverter ==
    /\ serial_number = Wide(1)
    /\ \E p \in PowerPayloads :
         Start(ValidFrame(MESSAGE_TYPE_INFORMATION_REPLY, 1, p))
    /\ flip = NoFlip

SpecInverter == InitInverter /\ [][Next]_vars

----------------------------------------------------------------------------
(* The call create_information_request(serial_number) *)

\* serial numbers as <<high, low>> 16-bit halves, and one beyond 2^32 - 1
PackSerials ==
    {<<hi, lo>> : hi \in RawSamples, lo \in RawSamples} \cup {<<65536, 0>>}

InitPack ==
    /\ serial_number \in PackSerials
    /\ buf = <<>>
    /\ data = <<>>
    /\ message_start = -1
    /\ length = 0
    /\ message = <<>>
    /\ cur = <<>>
    /\ nyield = 0
    /\ info = None
    /\ log = {}
    /\ outcome = NoOutcome
    /\ inverter = NoOutcome
    /\ previous = NoOutcome
    /\ ClientIdle
    /\ pc = "pack"
    /\ flip = NoFlip

CreateInformationRequest ==
    /\ pc = "pack"
    /\ outcome' = create_information_request(serial_number)
    /\ pc' = "packed"
    /\ UNCHANGED <<serial_number, buf, data, message_start, length, message,
                   cur, nyield, info, log, flip, inverter, previous,
                   client_vars>>

NextPack == CreateInformationRequest

SpecPack == InitPack /\ [][NextPack]_vars

----------------------------------------------------------------------------
(* parse_messages called a second time with the same arguments *)

ParseAgain ==
    /\ pc = "done"
    /\ previous = NoOutcome
    /\ previous' = outcome
    /\ data' = buf
    /\ message_start' = -1
    /\ length' = 0
    /\ message' = <<>>
    /\ cur' = <<>>
    /\ nyield' = 0
    /\ info' = None
    /\ outcome' = NoOutcome
    /\ pc' = "loop"
    /\ UNCHANGED <<serial_number, buf, log, flip, inverter,
                   client_vars>>

NextTwice ==
    \/ Next
    \/ ParseAgain

SpecTwice == Init /\ [][NextTwice]_vars

----------------------------------------------------------------------------
(* A packed request handed to the frame unpacker *)

\* the frame a device would send back if it echoed the request: the same
\* bytes with the receive separator, checksum adjusted
as_reply(frame) ==
    [frame EXCEPT ![3] = MESSAGE_RECV_SEP,
                  ![Len(frame) - 1] =
                      (frame[Len(frame) - 1] + 256 + MESSAGE_RECV_SEP - frame[3]) % 256]

\* _unpack_messages(bytearray(request)) is started on the packed request,
\* as packed or as echoed
UnpackRequest ==
    /\ pc = "packed"
    /\ outcome.kind = "return"
    /\ \E bytes \in {outcome.value[1], as_reply(outcome.value[1])} :
         /\ buf' = bytes
         /\ data' = bytes
    /\ outcome' = NoOutcome
    /\ pc' = "loop"
    /\ UNCHANGED <<serial_number, message_start, length, message, cur, nyield,
                   info, log, flip, inverter, previous,
                   client_vars>>

NextRoundTrip ==
    \/ CreateInformationRequest
    \/ UnpackRequest
    \/ UnpackMessagesNext
    \/ ParseMessagesBody

SpecRoundTrip == InitPack /\ [][NextRoundTrip]_vars

TypeOK ==
    /\ pc \in {"loop", "body", "resume", "exhausted", "done", "inverter",
              "pack", "packed", "call", "connect", "drain", "read",
              "wait_closed", "close", "http_request", "response_read",
              "response_text", "session_close"}
    /\ outcome.kind \in {"none", "return", "raise"}
    /\ (pc \in {"done", "inverter", "packed"}) = (outcome.kind # "none")
    /\ inverter.kind \in {"none", "return", "raise"}
    /\ (pc = "inverter") = (inverter.kind # "none")
    /\ client.klass \in {"OmnikInverter", "OmnikTcpRequest", "OmnikHttpRequest"}
    /\ client.close_session \in BOOLEAN
    /\ client.session # <<>> => client.session[1] \in DOMAIN sessions
    /\ \A i \in DOMAIN sessions : sessions[i] \in {"open", "closed"}
    /\ net.connection \in {"none", "open", "closed"}
    /\ net.opened \in 0 .. 1
    /\ pending.kind \in {"none", "raise", "return"}
    /\ second.name \in {"none", "close", "request"}
    /\ second.pc \in {"call", "http_request", "response_read", "response_text",
                     "session_close", "done"}
    /\ (second.pc = "done" /\ second.name # "none") = (second.outcome.kind # "none")

----------------------------------------------------------------------------
(* Properties *)

\* a slice of the full declared length went to _unpack_message
FrameTaken == length >= MESSAGE_HEADER_SIZE /\ Len(message) = length

\* the last byte of a frame slice is the mod-256 sum of the bytes before it
FrameSum(m) == SumBytes(SubSeq(m, 1, Len(m) - 1)) % 256
FrameChecksumOk(m) == m[Len(m)] = FrameSum(m)

\* the k-th (0 or 1) little-endian serial copy of a frame slice
SerialCopy(m, k) ==
    <<m[6 + 4 * k] + m[7 + 4 * k] * 256, m[4 + 4 * k] + m[5 + 4 * k] * 256>>

\* the slice passes every gate of _unpack_message
WellFormedSlice(m) ==
    /\ FrameChecksumOk(m)
    /\ m[2] = MESSAGE_RECV_SEP
    /\ SerialCopy(m, 0) = SerialCopy(m, 1)

\* bytes holds a complete valid frame, start marker to end marker, at offset off
SliceAt(bytes, off) == SubSeq(bytes, off + 2, off + 1 + bytes[off + 2] + MESSAGE_HEADER_SIZE)
WellFormedAt(bytes, off) ==
    /\ Len(bytes) >= off + 2
    /\ bytes[off + 1] = MESSAGE_START
    /\ Len(bytes) >= off + bytes[off + 2] + MESSAGE_HEADER_SIZE + 2
    /\ WellFormedSlice(SliceAt(bytes, off))
    /\ bytes[off + bytes[off + 2] + MESSAGE_HEADER_SIZE + 2] = MESSAGE_END

\* number of bytes the generator has taken from the front of the buffer
Consumed == Len(buf) - Len(data)

\* C1: for every buffer and serial number, parse_messages returns a mapping or
\* raises OmnikInverterPacketInvalidError; it never raises any other error.
C1_OnlyPacketInvalid ==
    outcome.kind = "raise" => outcome.exc = PacketInvalid

\* C2: _unpack_message accepts a frame only if its last byte is the sum modulo
\* 256 of all bytes before it; otherwise it raises 'Checksum mismatch' with the
\* calculated and the received checksum, and yields no tuple for that frame.
C2_ChecksumGate ==
    [][(pc = "loop" /\ FrameTaken')
        => /\ (nyield' # nyield => FrameChecksumOk(message'))
           /\ (FrameChecksumOk(message') => outcome'.msg # "Checksum mismatch")
           /\ (~FrameChecksumOk(message')
                 => /\ outcome' = Raise(PacketInvalid, "Checksum mismatch",
                                        <<FrameSum(message'), message'[Len(message')]>>)
                    /\ pc' = "done"
                    /\ nyield' = nyield
                    /\ cur' = <<>>)]_vars

C2_Witness ==
    /\ outcome.msg = "Checksum mismatch"
    /\ nyield = 1
    /\ SumBytes(SubSeq(message, 1, Len(message) - 1)) >= 256

\* the buffer before the byte was altered
FlipOriginal == [buf EXCEPT ![flip.base + flip.pos + 1] = flip.old]

\* a byte of a valid frame was altered and the parser got as far as that frame
FlipReached ==
    /\ pc = "done"
    /\ flip.pos >= 1
    /\ buf[flip.base + flip.pos + 1] # flip.old
    /\ WellFormedAt(FlipOriginal, flip.base)
    /\ flip.pos <= FlipOriginal[flip.base + 2] + MESSAGE_HEADER_SIZE - 1
    /\ Consumed > flip.base

\* C3 as stated: changing any single byte between the start marker and the
\* checksum byte of a valid frame, the length byte included, makes checksum
\* validation fail when the buffer is parsed.
C3_AnyByteChange ==
    FlipReached => (outcome.kind = "raise" /\ outcome.msg = "Checksum mismatch")

\* C3 amended: changing any single byte after the length byte and before the
\* checksum byte of a valid frame (separator, message type, a serial-number
\* byte or a payload byte) makes checksum validation fail when the buffer is
\* parsed: 'Checksum mismatch' is raised at that frame.
C3_BodyByteChange ==
    (FlipReached /\ flip.pos >= 2)
        => /\ outcome = Raise(PacketInvalid, "Checksum mismatch",
                              <<FrameSum(SliceAt(buf, flip.base)),
                                SliceAt(buf, flip.base)[Len(SliceAt(buf, flip.base))]>>)
           /\ Consumed = flip.base + 1

C3_Witness ==
    /\ FlipReached
    /\ flip.base > 0
    /\ flip.pos >= MESSAGE_HEADER_SIZE
    /\ outcome.msg = "Checksum mismatch"

\* C4: a frame whose two little-endian serial copies differ is rejected with
\* 'Serial number mismatch in reply A != B', whatever its message type and
\* whatever serial number the caller passed (the frame having passed the
\* checksum and separator gates that come first).
C4_DoubleSerial ==
    (/\ FrameTaken
     /\ FrameChecksumOk(message)
     /\ message[2] = MESSAGE_RECV_SEP
     /\ SerialCopy(message, 0) # SerialCopy(message, 1))
        => /\ outcome = Raise(PacketInvalid, "Serial number mismatch in reply",
                              <<SerialCopy(message, 0), SerialCopy(message, 1)>>)
           /\ pc = "done"

C4_Witness ==
    /\ outcome.msg = "Serial number mismatch in reply"
    /\ outcome.args = <<Wide(1), Wide(256)>>
    /\ serial_number \notin {Wide(1), Wide(256)}
    /\ message[3] = MESSAGE_TYPE_INFORMATION_REPLY

RECURSIVE OnlyStringFrames(_, _)
OnlyStringFrames(bytes, off) ==
    \/ off = Len(bytes)
    \/ /\ off < Len(bytes)
       /\ \A i \in (off + 1)..Len(bytes) : bytes[i] = TRAILING_GARBAGE
    \/ /\ WellFormedAt(bytes, off)
       /\ bytes[off + 4] = MESSAGE_TYPE_STRING
       /\ OnlyStringFrames(bytes, off + bytes[off + 2] + MESSAGE_HEADER_SIZE + 2)

\* C6: when every frame of the buffer validates and none is an information
\* reply (only plain-string frames, an empty buffer, only 0xFF bytes),
\* parse_messages raises 'None of the messages contained an information reply!'.
C6_NoInformationReply ==
    (pc = "done" /\ OnlyStringFrames(buf, 0))
        => outcome = Raise(PacketInvalid,
                           "None of the messages contained an information reply!", <<>>)

\* C7: a structurally valid frame whose type is neither 0xB0 nor 0xF0 makes
\* parse_messages raise 'Unknown Omnik message type', also when an information
\* reply came before it or follows it in the buffer.
C7_UnknownType ==
    (/\ FrameTaken
     /\ WellFormedSlice(message)
     /\ message[3] \notin {MESSAGE_TYPE_INFORMATION_REPLY, MESSAGE_TYPE_STRING}
     /\ pc # "body")
        => /\ outcome = Raise(PacketInvalid, "Unknown Omnik message type", <<message[3]>>)
           /\ pc = "done"

C7_Witness ==
    /\ outcome.msg = "Unknown Omnik message type"
    /\ info # None
    /\ WellFormedSlice(message)

\* C8: where a frame is expected to begin (start of the buffer, right after an
\* end marker), a byte that is neither 0x68 nor 0xFF raises 'Invalid start
\* byte' and no further frame is yielded.
C8_StartByte ==
    [][(pc = "loop" /\ data # <<>>
          /\ Head(data) \notin {MESSAGE_START, TRAILING_GARBAGE})
        => /\ outcome' = Raise(PacketInvalid, "Invalid start byte", <<Head(data)>>)
           /\ pc' = "done"
           /\ nyield' = nyield]_vars

C8_Witness ==
    /\ outcome.msg = "Invalid start byte"
    /\ nyield >= 1
    /\ Consumed > 1

\* C9: a frame with a correct checksum whose byte after the length byte is not
\* 0x41 is rejected with 'Invalid receiver separator'; so is one carrying 0x40.
C9_ReceiverSeparator ==
    (FrameTaken /\ FrameChecksumOk(message) /\ message[2] # MESSAGE_RECV_SEP)
        => /\ outcome = Raise(PacketInvalid, "Invalid receiver separator", <<>>)
           /\ pc = "done"

C9_Witness ==
    /\ outcome.msg = "Invalid receiver separator"
    /\ message[2] = MESSAGE_SEND_SEP
    /\ FrameChecksumOk(message)

\* C10: when N bytes remain after a start marker and N is less than the
\* declared length + 12 (= M), 'Could only read N out of M expected bytes from
\* TCP stream' is raised, for every N from 0 up to M - 1.
C10_TooShort ==
    [][(/\ pc = "loop" /\ data # <<>> /\ Head(data) = MESSAGE_START
        /\ (Len(data) = 1 \/ Len(data) - 1 < data[2] + MESSAGE_HEADER_SIZE))
        => /\ outcome'.exc = PacketInvalid
           /\ outcome'.msg = "Could only read"
           /\ outcome'.args[1] = Len(data) - 1
           /\ (Len(data) > 1 => outcome'.args[2] = data[2] + MESSAGE_HEADER_SIZE)]_vars

\* C11: after every frame that was yielded, the byte right behind its checksum
\* must be the end marker 0x16; any other byte there, or no byte at all,
\* raises OmnikInverterPacketInvalidError 'Invalid end byte'.
C11_EndMarker ==
    [][(pc = "resume" /\ (Len(data) <= length \/ data[length + 1] # MESSAGE_END))
        => /\ outcome' = Raise(PacketInvalid, "Invalid end byte", <<>>)
           /\ pc' = "done"]_vars

\* offset in bytes just behind the longest run of complete valid frames that
\* starts at offset off
RECURSIVE FramesEnd(_, _)
FramesEnd(bytes, off) ==
    IF WellFormedAt(bytes, off)
    THEN FramesEnd(bytes, off + bytes[off + 2] + MESSAGE_HEADER_SIZE + 2)
    ELSE off

\* bytes is a run of valid frames and then one or more bytes, all of them 0xFF
FramesThenGarbage(bytes) ==
    LET e == FramesEnd(bytes, 0)
    IN /\ e < Len(bytes)
       /\ \A i \in (e + 1)..Len(bytes) : bytes[i] = TRAILING_GARBAGE

\* C12: a 0xFF where a frame should start ends the stream cleanly when all
\* bytes behind it are 0xFF too, and raises OmnikInverterPacketInvalidError
\* when one of them is not; so valid frames followed by a run of 0xFF bytes
\* parse to the same outcome as the same frames without the run.
C12_TrailingGarbage ==
    [][/\ (pc = "loop" /\ data # <<>> /\ Head(data) = TRAILING_GARBAGE)
          => IF \A i \in 2..Len(data) : data[i] = TRAILING_GARBAGE
               THEN /\ pc' = "exhausted"
                    /\ outcome' = NoOutcome
                    /\ nyield' = nyield
               ELSE /\ pc' = "done"
                    /\ outcome'.kind = "raise"
                    /\ outcome'.exc = PacketInvalid
                    /\ outcome'.msg = "(Next) message starts with 0xFF but the remainder is not strictly 0xFF"
       /\ (pc' = "done" /\ FramesThenGarbage(buf))
          => outcome' = parse_messages(serial_number, SubSeq(buf, 1, FramesEnd(buf, 0)))]_vars

C12_Witness ==
    /\ pc = "done"
    /\ outcome.kind = "return"
    /\ message_start = TRAILING_GARBAGE
    /\ nyield = 2
    /\ FramesThenGarbage(buf)
    /\ FramesEnd(buf, 0) + 2 = Len(buf)

\* the complete valid frames of the given type in the run of valid frames
\* that starts at offset off, each from its start marker to its end marker
RECURSIVE FramesOfType(_, _, _)
FramesOfType(bytes, off, type) ==
    IF ~WellFormedAt(bytes, off) THEN <<>>
    ELSE LET n == off + bytes[off + 2] + MESSAGE_HEADER_SIZE + 2
         IN (IF bytes[off + 4] = type THEN <<SubSeq(bytes, off + 1, n)>> ELSE <<>>)
                \o FramesOfType(bytes, n, type)

\* number of frames in the run of valid frames that starts at offset off
RECURSIVE FrameCount(_, _)
FrameCount(bytes, off) ==
    IF ~WellFormedAt(bytes, off) THEN 0
    ELSE 1 + FrameCount(bytes, off + bytes[off + 2] + MESSAGE_HEADER_SIZE + 2)

InformationReplies(bytes) == FramesOfType(bytes, 0, MESSAGE_TYPE_INFORMATION_REPLY)
Strings(bytes) == FramesOfType(bytes, 0, MESSAGE_TYPE_STRING)

\* bytes is nothing but valid information-reply and plain-string frames
RepliesAndStrings(bytes) ==
    /\ FramesEnd(bytes, 0) = Len(bytes)
    /\ Len(InformationReplies(bytes)) + Len(Strings(bytes)) = FrameCount(bytes, 0)

\* C13: a buffer of one valid information-reply frame and any number of valid
\* plain-string frames, before or after it, has the outcome of the
\* information-reply frame alone.
C13_StringsIgnored ==
    (/\ pc = "done"
     /\ RepliesAndStrings(buf)
     /\ Len(InformationReplies(buf)) = 1)
        => outcome = parse_messages(serial_number, InformationReplies(buf)[1])

\* the information-reply frames of bytes all decode by themselves
RepliesDecode(bytes) ==
    \A i \in 1..Len(InformationReplies(bytes)) :
        parse_messages(serial_number, InformationReplies(bytes)[i]).kind = "return"

\* the payloads of the plain-string frames of bytes are all UTF-8
StringsDecode(bytes) ==
    \A i \in 1..Len(Strings(bytes)) :
        LET f == Strings(bytes)[i]
        IN Utf8Decode(SubSeq(f, MESSAGE_HEADER_SIZE + 1, Len(f) - 2)).ok

\* C14 as stated: with more than one valid information-reply frame in the
\* buffer (each of them, and each plain-string frame, decodable by itself)
\* parse_messages does not fail and returns the fields of the first
\* information reply.
C14_FirstReply ==
    (/\ pc = "done"
     /\ RepliesAndStrings(buf)
     /\ Len(InformationReplies(buf)) > 1
     /\ RepliesDecode(buf) /\ StringsDecode(buf))
        => /\ outcome.kind = "return"
           /\ outcome = parse_messages(serial_number, InformationReplies(buf)[1])

\* C14: with more than one valid information-reply frame in the buffer,
\* parse_messages returns the fields of the last information reply, each
\* reply after the first being logged with a warning; it fails only when
\* the payload of one of the frames fails to decode.
C14_LastReply ==
    (/\ pc = "done"
     /\ RepliesAndStrings(buf)
     /\ Len(InformationReplies(buf)) > 1)
        => IF RepliesDecode(buf) /\ StringsDecode(buf)
             THEN /\ outcome = parse_messages(serial_number,
                         InformationReplies(buf)[Len(InformationReplies(buf))])
                  /\ outcome.kind = "return"
                  /\ "warning: Omnik sent multiple INFORMATION_REPLY messages" \in log
             ELSE outcome.kind = "raise"

C14_Witness ==
    /\ pc = "done"
    /\ RepliesAndStrings(buf)
    /\ Len(InformationReplies(buf)) = 2
    /\ RepliesDecode(buf)
    /\ outcome.kind = "return"
    /\ outcome # parse_messages(serial_number, InformationReplies(buf)[1])

\* the raw big-endian 16-bit value at payload offset off of a frame slice
RawAt(m, off) == m[MESSAGE_HEADER_SIZE + off] * 256 + m[MESSAGE_HEADER_SIZE + off + 1]

\* a sentinel-at-65535 field: None for 65535, else the raw value over den
Expect(raw, den) == IF raw = 65535 THEN <<>> ELSE <<raw, den>>

\* an information reply was just decoded from the slice in message
ReplyDecoded ==
    /\ pc = "resume"
    /\ message[3] = MESSAGE_TYPE_INFORMATION_REPLY
    /\ info # None

\* C15: each of the 3 elements of dc_input_voltage, dc_input_current,
\* ac_output_current, ac_output_voltage (raw * 0.1), ac_output_frequency
\* (raw * 0.01) and ac_output_power (raw) is None exactly when its raw value
\* is 65535 and the scaled raw value otherwise; every list has 3 elements in
\* payload order and frequency[i], power[i] come from the i-th pair.
C15_SentinelFields ==
    ReplyDecoded =>
        LET d == info[1]
        IN /\ \A f \in {"dc_input_voltage", "dc_input_current", "ac_output_current",
                        "ac_output_voltage", "ac_output_frequency", "ac_output_power"} :
                 Len(d[f]) = 3
           /\ \A i \in 1..3 :
                /\ d.dc_input_voltage[i] = Expect(RawAt(message, OFF_dc_input_voltage + 2 * (i - 1)), 10)
                /\ d.dc_input_current[i] = Expect(RawAt(message, OFF_dc_input_current + 2 * (i - 1)), 10)
                /\ d.ac_output_current[i] = Expect(RawAt(message, OFF_ac_output_current + 2 * (i - 1)), 10)
                /\ d.ac_output_voltage[i] = Expect(RawAt(message, OFF_ac_output_voltage + 2 * (i - 1)), 10)
                /\ d.ac_output_frequency[i] = Expect(RawAt(message, OFF_ac_output + 4 * (i - 1)), 100)
                /\ d.ac_output_power[i] = Expect(RawAt(message, OFF_ac_output + 4 * (i - 1) + 2), 1)

C15_Witness ==
    /\ ReplyDecoded
    /\ info[1].ac_output_frequency = <<<<1013, 100>>, None, <<1017, 100>>>>
    /\ info[1].ac_output_power = <<<<1014, 1>>, <<1016, 1>>, <<1018, 1>>>>
    /\ info[1].dc_input_voltage = <<<<1001, 10>>, <<1002, 10>>, <<1003, 10>>>>
    /\ info[1].temperature = None

\* the payload of a frame slice, and the same payload with its two
\* temperature bytes set to zero
PayloadOf(m) == SubSeq(m, MESSAGE_HEADER_SIZE, Len(m) - 1)
ZeroTemperature(p) ==
    [p EXCEPT ![OFF_temperature + 1] = 0, ![OFF_temperature + 2] = 0]

\* C16: the decoded temperature is None exactly when the raw temperature is
\* 65326 and raw * 0.1 for every other raw value, 65535 included; all other
\* fields are what they are for the same payload with another temperature.
C16_TemperatureSentinel ==
    ReplyDecoded =>
        LET d == info[1]
            raw == RawAt(message, OFF_temperature)
            other == parse_information_reply(ZeroTemperature(PayloadOf(message))).value[1]
        IN /\ (d.temperature = <<>>) = (raw = 65326)
           /\ raw # 65326 => d.temperature = <<raw, 10>>
           /\ DOMAIN other = DOMAIN d
           /\ other.temperature = <<0, 10>>
           /\ \A f \in DOMAIN d \ {"temperature"} : d[f] = other[f]

C16_Witness ==
    /\ ReplyDecoded
    /\ RawAt(message, OFF_temperature) = 65326
    /\ info[1].temperature = <<>>
    /\ info[1].dc_input_current = <<<<1004, 10>>, <<1005, 10>>, <<1006, 10>>>>
    /\ info[1].inverter_active = TRUE

\* C17: raw inverter_active 0 decodes to False and 1 to True; any other raw
\* value makes parsing the reply fail with OmnikInverterPacketInvalidError,
\* and no field mapping is returned.
C17_InverterActive ==
    (/\ FrameTaken
     /\ WellFormedSlice(message)
     /\ message[3] = MESSAGE_TYPE_INFORMATION_REPLY
     /\ Len(PayloadOf(message)) >= SIZEOF_TcpData
     /\ pc # "body")
        => LET raw == RawAt(message, OFF_inverter_active)
           IN IF raw \in {0, 1}
                THEN info # None => info[1].inverter_active = (raw = 1)
                ELSE /\ pc = "done"
                     /\ outcome.kind = "raise"
                     /\ outcome.exc = PacketInvalid

\* the fields of a decoded reply other than the two firmware strings
WithoutFirmware(d) == [f \in DOMAIN d \ {"firmware", "firmware_slave"} |-> d[f]]

\* C18: firmware and firmware_slave are decoded exactly when the payload of
\* the information reply has at least 85 + 40 bytes; a payload of exactly 85
\* bytes decodes every other field as it would with the firmware section
\* present, and the Inverter record built from it has firmware None and
\* firmware_slave None.
C18_FirmwareOptional ==
    /\ ReplyDecoded =>
         LET d == info[1]
             p == PayloadOf(message)
         IN /\ ("firmware" \in DOMAIN d) = (Len(p) >= 85 + 40)
            /\ ("firmware_slave" \in DOMAIN d) = (Len(p) >= 85 + 40)
            /\ Len(p) = 85 =>
                 LET full == parse_information_reply(
                                 p \o TcpFirmwareBytes(SampleFirmware, SampleFirmwareSlave))
                 IN /\ ~full.raised
                    /\ full.value[1].firmware = SampleFirmware
                    /\ full.value[1].firmware_slave = SampleFirmwareSlave
                    /\ WithoutFirmware(full.value[1]) = d
    /\ (/\ pc = "inverter"
        /\ message[3] = MESSAGE_TYPE_INFORMATION_REPLY
        /\ Len(PayloadOf(message)) = 85)
         => /\ inverter.kind = "return"
            /\ inverter.value[1].firmware = None
            /\ inverter.value[1].firmware_slave = None

\* the loop body is about to decode an information reply whose payload has
\* neither 85 nor 125 bytes
OddSizeReply ==
    /\ pc = "body"
    /\ cur[1] = MESSAGE_TYPE_INFORMATION_REPLY
    /\ Len(cur[3]) \notin {85, 125}

C20_InformationRequest ==
    (/\ pc = "packed"
     /\ serial_number[1] \in 0..65535
     /\ serial_number[2] \in 0..65535)
        => LET hi == serial_number[1]
               lo == serial_number[2]
               le4 == <<lo % 256, lo \div 256, hi % 256, hi \div 256>>
               b == outcome.value[1]
           IN /\ outcome.kind = "return"
              /\ Len(b) = 16
              /\ SubSeq(b, 1, 4) = <<104, 2, 64, 48>>
              /\ SubSeq(b, 5, 8) = le4
              /\ SubSeq(b, 9, 12) = le4
              /\ SubSeq(b, 13, 14) = <<1, 0>>
              /\ b[15] = (b[2] + b[3] + b[4] + b[5] + b[6] + b[7] + b[8] + b[9]
                            + b[10] + b[11] + b[12] + b[13] + b[14]) % 256
              /\ b[16] = 22

C20_Witness ==
    /\ pc = "packed"
    /\ serial_number = <<65535, 65280>>
    /\ outcome = Return(<<104, 2, 64, 48, 0, 255, 255, 255, 0, 255, 255, 255, 1, 0, 109, 22>>)

\* the frame unpacker has acted on a packed request
RequestUnpacked == buf # <<>> /\ pc # "loop"

\* C21 as stated: unpacking the frame built by create_information_request(s)
\* with the frame unpacker returns serial s, both embedded copies being s.
C21_RoundTrip ==
    (RequestUnpacked /\ buf = create_information_request(serial_number).value[1])
        => /\ nyield = 1
           /\ cur # <<>>
           /\ cur[2] = serial_number

\* C21: the frame built by create_information_request(s) embeds s twice, but
\* the frame unpacker rejects it with 'Invalid receiver separator' because it
\* carries the send separator 0x40; the same frame with the receive separator
\* 0x41 and matching checksum unpacks to type 0x30, serial s, payload 01 00.
C21_RoundTripAsReply ==
    RequestUnpacked
        => /\ SerialCopy(message, 0) = serial_number
           /\ SerialCopy(message, 1) = serial_number
           /\ buf[3] = MESSAGE_SEND_SEP
                => /\ buf = create_information_request(serial_number).value[1]
                   /\ outcome = Raise(PacketInvalid, "Invalid receiver separator", <<>>)
                   /\ nyield = 0
           /\ buf[3] # MESSAGE_SEND_SEP
                => /\ nyield = 1
                   /\ cur = <<MESSAGE_TYPE_INFORMATION_REQUEST, serial_number, <<1, 0>>>>

C21_Witness ==
    /\ RequestUnpacked
    /\ serial_number = <<65535, 65280>>
    /\ buf[3] = MESSAGE_RECV_SEP
    /\ pc = "body"
    /\ cur[2] = <<65535, 65280>>

\* C22: parse_messages leaves the caller's buffer as it was, also when it
\* fails, and a second call with the same serial number and buffer ends as
\* the first did: the same field mapping or the same error.
C22_Pure ==
    [][/\ buf' = buf
       /\ (pc' = "done" /\ previous' # NoOutcome) => outcome' = previous']_vars

C22_Witness ==
    /\ pc = "done"
    /\ previous.kind = "raise"
    /\ previous.msg = "Invalid end byte"
    /\ outcome = previous
    /\ nyield = 2
    /\ Len(buf) > Len(data)

----------------------------------------------------------------------------
(* The clients around the codec: OmnikInverter (omnikinverter.py),         *)
(* OmnikTcpRequest (requests/tcp.py) and OmnikHttpRequest                  *)
(* (requests/http.py). A step is the code between two awaits.              *)

AuthError == "OmnikInverterAuthError"
ConnectionError == "OmnikInverterConnectionError"
InverterError == "OmnikInverterError"

\* ticks after which a timer set to request_timeout fires
RequestTimeout == 2

Klasses == {"OmnikInverter", "OmnikTcpRequest", "OmnikHttpRequest"}
HttpSourceTypes == {"json", "html", "javascript"}
SourceTypes == HttpSourceTypes \cup {"tcp", "blah"}

\* the methods a caller can await on each class
Calls(klass) ==
    IF klass = "OmnikInverter"
    THEN {"request", "tcp_request", "inverter", "device"}
    ELSE {"request"}

\* how the device treats a TCP exchange:
\*   refuse       the connection cannot be opened
\*   blackhole    the connection attempt is never answered; in the end the
\*                operating system gives up on it with an error
\*   reset_write  accepts, then the connection is lost before the request drains
\*   stall_write  accepts, then never takes the request
\*   reset_read   takes the request, then the connection is lost
\*   silent       takes the request and never replies
\*   reply        replies and lets the connection close
\*   reply_reset  replies, then the connection is lost before it is closed
Peers ==
    {"refuse", "blackhole", "reset_write", "stall_write", "reset_read",
     "silent", "reply", "reply_reset"}

\* asyncio hands a lost connection's exception to the reader, to drain() and
\* to wait_closed() alike
connection_lost(peer) == peer \in {"reset_write", "reset_read", "reply_reset"}

\* what reader.read(1024) may return
Replies ==
    {ValidFrame(MESSAGE_TYPE_INFORMATION_REPLY, 1, PayloadInfoFirmware),
     ValidFrame(MESSAGE_TYPE_INFORMATION_REPLY, 1, PayloadInfo),
     ValidFrame(MESSAGE_TYPE_INFORMATION_REPLY, 2, PayloadInfoFirmware),
     ValidFrame(MESSAGE_TYPE_STRING, 1, PayloadText),
     <<MESSAGE_START, 0>>,
     <<0>>,
     <<>>}

\* serial_number field of the client: unset, usable, or too wide to pack
ClientSerials == {None, Wide(1), <<65536, 0>>}

CallerSession == 0
NoSessions == [i \in {} |-> "open"]

codec_locals ==
    <<data, message_start, length, message, cur, nyield, info, log, flip,
      inverter, previous>>

\* omnikinverter.py 184-187 and 208-211: only inverter() goes to the device for
\* source type "tcp"; device() does not
TcpCall_device ==
    \/ client.klass = "OmnikTcpRequest"
    \/ /\ client.klass = "OmnikInverter"
       /\ \/ call.name = "tcp_request"
          \/ call.name \in {"inverter", "device"} /\ client.source_type = "tcp"
TcpCall ==
    \/ client.klass = "OmnikTcpRequest"
    \/ /\ client.klass = "OmnikInverter"
       /\ \/ call.name = "tcp_request"
          \/ call.name = "inverter" /\ client.source_type = "tcp"

\* the codec locals before parse_messages runs
CodecIdle ==
    /\ buf = <<>>
    /\ data = <<>>
    /\ message_start = -1
    /\ length = 0
    /\ message = <<>>
    /\ cur = <<>>
    /\ nyield = 0
    /\ info = None
    /\ log = {}
    /\ outcome = NoOutcome
    /\ inverter = NoOutcome
    /\ previous = NoOutcome
    /\ flip = NoFlip

\* omnikinverter.py 138-139, requests/tcp.py 61 and 97-99: the serial number
\* is checked before anything else
serial_missing_ignored(serial) == FALSE
serial_missing(serial) == serial = None

TcpRequest ==
    /\ pc = "call"
    /\ TcpCall
    /\ IF serial_missing(serial_number)
       THEN /\ outcome' = Raise(AuthError, "serial_number is missing from the request", <<>>)
            /\ pc' = "done"
       ELSE /\ outcome' = outcome
            /\ pc' = "connect"
    /\ UNCHANGED <<serial_number, buf, codec_locals, client, sessions, net,
                   call, pending, second>>

\* omnikinverter.py 146-149 and 160-163, requests/tcp.py 68-75: an OSError or
\* a timeout of a step is raised again as OmnikInverterConnectionError
os_error_raw(exc) == exc
os_error(exc) == ConnectionError

\* the timeout message depends on the interpreter: where asyncio.TimeoutError
\* is the builtin TimeoutError it is an OSError and the first handler takes it
TimeoutMessages ==
    {"Timeout occurred when opening a TCP connection to the Omnik Inverter device",
     "Failed to communicate with the Omnik Inverter device over TCP"}

\* await asyncio.open_connection(...) is over; OmnikInverter then builds and
\* writes the request before its next await
OpenConnection ==
    /\ pc = "connect"
    /\ \/ /\ net.peer \in {"refuse", "blackhole"}
          /\ outcome' = Raise(os_error("OSError"),
                              IF client.klass = "OmnikInverter"
                              THEN "Failed to open a TCP connection to the Omnik Inverter device"
                              ELSE "Failed to communicate with the Omnik Inverter device over TCP",
                              <<>>)
          /\ net' = [net EXCEPT !.failure = "connect"]
          /\ pending' = pending
          /\ pc' = "done"
       \/ /\ net.peer \notin {"refuse", "blackhole"}
          /\ \E d \in 0 .. RequestTimeout - 1 :
               LET req == create_information_request(serial_number)
                   packed == req.kind = "return"
                   inv == client.klass = "OmnikInverter"
               IN /\ net' = [net EXCEPT
                               !.connection = IF packed \/ ~inv THEN "open" ELSE "closed",
                               !.opened = @ + 1,
                               !.elapsed = @ + d,
                               !.written = IF packed THEN req.value[1] ELSE @]
                  /\ pending' = IF ~packed /\ inv THEN req ELSE pending
                  /\ outcome' = IF ~packed /\ ~inv THEN req ELSE outcome
                  /\ pc' = CASE packed -> "drain"
                             [] ~packed /\ inv -> "wait_closed"
                             [] OTHER -> "done"
    /\ UNCHANGED <<serial_number, buf, codec_locals, client, sessions, call, second>>

\* a step of the exchange failed with an OSError: OmnikInverter goes through
\* its finally (writer.close(), then wait_closed()); OmnikTcpRequest converts
\* the error at once and does nothing else
StepFailed(step) ==
    IF client.klass = "OmnikInverter"
    THEN /\ net' = [net EXCEPT !.connection = "closed", !.failure = step]
         /\ pending' = Raise("ConnectionResetError", "", <<>>)
         /\ outcome' = outcome
         /\ pc' = "wait_closed"
    ELSE /\ net' = [net EXCEPT !.failure = step]
         /\ pending' = pending
         /\ outcome' = Raise(os_error("ConnectionResetError"),
                             "Failed to communicate with the Omnik Inverter device over TCP", <<>>)
         /\ pc' = "done"

\* await writer.drain() is over
Drain ==
    /\ pc = "drain"
    /\ \/ /\ net.peer = "reset_write"
          /\ StepFailed("write")
       \/ /\ net.peer \notin {"reset_write", "stall_write"}
          /\ \E d \in 0 .. RequestTimeout - 1 : net' = [net EXCEPT !.elapsed = @ + d]
          /\ pc' = "read"
          /\ UNCHANGED <<pending, outcome>>
    /\ UNCHANGED <<serial_number, buf, codec_locals, client, sessions, call, second>>

\* await reader.read(1024) is over
Read ==
    /\ pc = "read"
    /\ \/ /\ net.peer = "reset_read"
          /\ StepFailed("read")
          /\ buf' = buf
       \/ /\ net.peer \in {"reply", "reply_reset"}
          /\ \E raw \in Replies : buf' = raw
          /\ \E d \in 0 .. RequestTimeout - 1 :
               net' = [net EXCEPT !.elapsed = @ + d,
                                  !.connection = "closed"]
          /\ pc' = IF client.klass = "OmnikInverter" THEN "wait_closed" ELSE "close"
          /\ UNCHANGED <<pending, outcome>>
    /\ UNCHANGED <<serial_number, codec_locals, client, sessions, call, second>>

\* await writer.wait_closed() is over: in OmnikInverter's finally block, or in
\* OmnikTcpRequest._close(); then parse_messages(serial_number, raw_msg) starts
WaitClosed ==
    /\ pc \in {"wait_closed", "close"}
    /\ IF connection_lost(net.peer)
       THEN /\ outcome' = Raise(os_error("ConnectionResetError"),
                                "Failed to communicate with the Omnik Inverter device over TCP", <<>>)
            /\ net' = [net EXCEPT !.failure = IF @ = "none" THEN "close" ELSE @]
            /\ pc' = "done"
            /\ data' = data
       ELSE IF pending # NoOutcome
       THEN /\ outcome' = pending
            /\ net' = net
            /\ pc' = "done"
            /\ data' = data
       ELSE /\ outcome' = outcome
            /\ net' = net
            /\ pc' = "loop"
            /\ data' = buf
    /\ pending' = NoOutcome
    /\ UNCHANGED <<serial_number, buf, message_start, length, message, cur,
                   nyield, info, log, flip, inverter, previous, client,
                   sessions, call, second>>

\* requests/tcp.py 64-67: each step runs under its own
\* asyncio.wait_for(..., timeout=self.request_timeout); omnikinverter.py sets
\* no timer around any step of tcp_request
step_timers(klass) == klass = "OmnikTcpRequest"

Timeout ==
    /\ pc \in {"connect", "drain", "read", "close"}
    /\ step_timers(client.klass)
    /\ \E msg \in TimeoutMessages : outcome' = Raise(os_error("TimeoutError"), msg, <<>>)
    /\ net' = [net EXCEPT !.failure = "timeout",
                          !.elapsed = IF pc = "close" THEN @ ELSE @ + RequestTimeout]
    /\ pc' = "done"
    /\ UNCHANGED <<serial_number, buf, codec_locals, client, sessions, call,
                   pending, second>>

\* omnikinverter.py 167-213: what inverter() and device() do without a
\* request: device() over TCP has nothing to read, and an unknown source type
\* is refused
Device_empty == [signal_quality |-> None, firmware |-> None, ip_address |-> None]

Dispatch ==
    /\ pc = "call"
    /\ client.klass = "OmnikInverter"
    /\ call.name \in {"inverter", "device"}
    /\ \/ /\ call.name = "device"
          /\ client.source_type = "tcp"
          /\ outcome' = Return(Device_empty)
       \/ /\ client.source_type \notin HttpSourceTypes \cup {"tcp"}
          /\ outcome' = Raise(InverterError, "Unknown source type", <<client.source_type>>)
    /\ pc' = "done"
    /\ UNCHANGED <<serial_number, buf, codec_locals, client, sessions, net,
                   call, pending, second>>

----------------------------------------------------------------------------
(* One TCP request against one device *)

TcpClients ==
    {[klass |-> k, source_type |-> "tcp", credentials |-> FALSE,
      session |-> None, close_session |-> FALSE] :
        k \in {"OmnikInverter", "OmnikTcpRequest"}}

TcpCalls(klass) ==
    IF klass = "OmnikInverter" THEN {"tcp_request", "inverter"} ELSE {"request"}

InitTcp ==
    /\ serial_number \in ClientSerials
    /\ CodecIdle
    /\ pc = "call"
    /\ client \in TcpClients
    /\ sessions = NoSessions
    /\ \E p \in Peers :
         net = [peer |-> p, connection |-> "none", opened |-> 0,
                written |-> <<>>, sent |-> 0, elapsed |-> 0, failure |-> "none"]
    /\ \E name \in TcpCalls(client.klass) :
         call = [name |-> name, n |-> 1, uses |-> None]
    /\ pending = NoOutcome
    /\ second = NoTask

NextTcp ==
    \/ TcpRequest
    \/ OpenConnection
    \/ Drain
    \/ Read
    \/ WaitClosed
    \/ Timeout
    \/ UnpackMessagesNext
    \/ ParseMessagesBody
    \/ UnpackMessagesResume
    \/ ParseMessagesEnd
    \/ InverterFromTcp

SpecTcp == InitTcp /\ [][NextTcp]_vars

\* the event loop runs whatever is ready: a step that can be taken is taken
SpecTcpFair == SpecTcp /\ WF_vars(NextTcp)

\* the request is over: it has returned or raised
Finished == pc \in {"done", "inverter"}

----------------------------------------------------------------------------
\* C23: a TCP request on a client whose serial_number is None fails with
\* OmnikInverterAuthError 'serial_number is missing from the request', and it
\* does so before any connection is opened and before any byte is written.
C23_SerialMissing ==
    serial_number = None =>
        /\ net.opened = 0
        /\ net.connection = "none"
        /\ net.written = <<>>
        /\ pc \in {"call", "done"}
        /\ pc = "done" =>
             outcome = Raise(AuthError, "serial_number is missing from the request", <<>>)

C23_Witness ==
    /\ serial_number = None
    /\ pc = "done"
    /\ outcome.exc = AuthError
    /\ net.opened = 0

----------------------------------------------------------------------------
----------------------------------------------------------------------------
\* C25: every TCP connection opened for a request is closed by the time the
\* request returns or raises (after a good read, after a write or read
\* failure, after a timeout in any step), and a request opens exactly one
\* connection.
C25_ConnectionClosed ==
    /\ net.opened <= 1
    /\ net.connection # "none" => net.opened = 1
    /\ Finished => net.connection # "open"

\* what holds of OmnikInverter.tcp_request, whose finally block closes the writer
C25_InverterCloses ==
    client.klass = "OmnikInverter" => C25_ConnectionClosed

----------------------------------------------------------------------------
\* C26: a TCP request always completes. When the device never answers the
\* connection attempt, never takes the request or never replies, the request
\* ends with OmnikInverterConnectionError for a timeout, and no more than one
\* request_timeout passes over connect, write and read together.
Stalls == {"blackhole", "stall_write", "silent"}

C26_Eventually == <>Finished

C26_TimeoutError ==
    (Finished /\ net.peer \in Stalls /\ serial_number = Wide(1)) =>
        /\ outcome.kind = "raise"
        /\ outcome.exc = ConnectionError
        /\ net.failure \in {"timeout", "connect"}

C26_OneTimeout == net.elapsed <= RequestTimeout

C26_AlwaysCompletes ==
    /\ C26_Eventually
    /\ []C26_TimeoutError
    /\ []C26_OneTimeout

----------------------------------------------------------------------------
(* The HTTP request of OmnikInverter (omnikinverter.py 42-123) and of       *)
(* OmnikHttpRequest (requests/http.py 59-128), and close(). Two coroutines  *)
(* may run on one client: "main", whose position is pc, and "second".       *)

Tasks == {"main", "second"}

Pc(t) == IF t = "main" THEN pc ELSE second.pc
Uses(t) == IF t = "main" THEN call.uses ELSE second.uses
Pending(t) == IF t = "main" THEN pending ELSE second.pending
Name(t) == IF t = "main" THEN call.name ELSE second.name

\* task t moves on: its position, the session it is awaiting on, the
\* exception its finally block holds, and how it ended
Step(t, newpc, newuses, newpending, newoutcome) ==
    IF t = "main"
    THEN /\ pc' = newpc
         /\ call' = [call EXCEPT !.uses = newuses]
         /\ pending' = newpending
         /\ outcome' = newoutcome
         /\ second' = second
    ELSE /\ second' = [second EXCEPT !.pc = newpc, !.uses = newuses,
                                     !.pending = newpending, !.outcome = newoutcome]
         /\ UNCHANGED <<pc, call, pending, outcome>>

HttpCall(t) ==
    /\ Name(t) # "close"
    /\ \/ client.klass = "OmnikHttpRequest"
       \/ /\ client.klass = "OmnikInverter"
          /\ \/ Name(t) = "request"
             \/ Name(t) \in {"inverter", "device"} /\ client.source_type \in HttpSourceTypes

\* omnikinverter.py 78-80, requests/http.py 136-138
credentials_never_missing(c) == FALSE
credentials_missing(c) == c.source_type = "html" /\ ~c.credentials

\* omnikinverter.py 72-74, requests/http.py 93-95: a client without a session
\* makes one and remembers that it is its own
NewSession == Cardinality(DOMAIN sessions \ {CallerSession}) + 1
with_session(c) ==
    IF c.session = None
    THEN [c EXCEPT !.session = <<NewSession>>, !.close_session = TRUE]
    ELSE c
sessions_with(c) ==
    IF c.session = None THEN sessions @@ (NewSession :> "open") ELSE sessions

\* omnikinverter.py 118 and 217, requests/http.py 132: the client closes only
\* a session it made itself
owns_any_session(c) == c.session # None
owns_session(c) == c.session # None /\ c.close_session

\* omnikinverter.py 117-121: the finally block of OmnikInverter.request
Finally(t, c, result) ==
    IF owns_session(c)
    THEN Step(t, "session_close", c.session, result, NoOutcome)
    ELSE Step(t, "done", None, NoOutcome, result)

\* OmnikHttpRequest.request has no finally block: it just returns or raises
Cleanup(t, c, result) ==
    IF c.klass = "OmnikInverter"
    THEN Finally(t, c, result)
    ELSE Step(t, "done", None, NoOutcome, result)

AuthMissing ==
    Raise(AuthError, "A username and/or password is missing from the request", <<>>)

\* request() up to its first await
RequestStart(t) ==
    /\ Pc(t) = "call"
    /\ HttpCall(t)
    /\ IF client.klass = "OmnikHttpRequest" /\ credentials_missing(client)
       THEN /\ Step(t, "done", None, NoOutcome, AuthMissing)
            /\ UNCHANGED <<client, sessions, net>>
       ELSE LET c == with_session(client)
            IN /\ client' = c
               /\ sessions' = sessions_with(client)
               /\ IF credentials_missing(c)
                  THEN /\ Finally(t, c, AuthMissing)
                       /\ net' = net
                  ELSE /\ Step(t, "http_request", c.session, NoOutcome, NoOutcome)
                       /\ net' = [net EXCEPT !.sent = @ + 1]
    /\ UNCHANGED <<serial_number, buf, codec_locals>>

\* how await self.session.request(...) under the timeout may end
HttpOutcomes == {"ok", "bad_content_type", "timeout", "client_error"}

\* await self.session.request(...) is over; an exchange on a session that
\* has been closed meanwhile can only fail
HttpResponse(t) ==
    /\ Pc(t) = "http_request"
    /\ \E r \in HttpOutcomes :
         /\ r \in {"ok", "bad_content_type"} => sessions[Uses(t)[1]] = "open"
         /\ CASE r = "ok" -> Step(t, "response_read", Uses(t), NoOutcome, NoOutcome)
              [] r = "bad_content_type" ->
                   Step(t, "response_text", Uses(t), NoOutcome, NoOutcome)
              [] r = "timeout" ->
                   Cleanup(t, client,
                           Raise(ConnectionError,
                                 "Timeout occurred while connecting to Omnik Inverter device", <<>>))
              [] OTHER ->
                   Cleanup(t, client,
                           Raise(ConnectionError,
                                 "Error occurred while communicating with Omnik Inverter device", <<>>))
    /\ UNCHANGED <<serial_number, buf, codec_locals, client, sessions, net>>

\* await response.text() or await response.read() is over; neither is inside
\* the try that converts aiohttp's errors
ResponseBody(t) ==
    /\ Pc(t) \in {"response_read", "response_text"}
    /\ \E broken \in {FALSE, sessions[Uses(t)[1]] = "closed"} :
         Cleanup(t, client,
                 CASE broken -> Raise("ClientError", "", <<>>)
                   [] Pc(t) = "response_text" ->
                        Raise(InverterError,
                              "Unexpected response from the Omnik Inverter device", <<>>)
                   [] OTHER -> Return("response"))
    /\ UNCHANGED <<serial_number, buf, codec_locals, client, sessions, net>>

\* omnikinverter.py 119-121: await self.session.close() in the finally block
\* is over, and the two fields are reset
SessionClose(t) ==
    /\ Pc(t) = "session_close"
    /\ Name(t) # "close"
    /\ sessions' = [sessions EXCEPT ![Uses(t)[1]] = "closed"]
    /\ client' = [client EXCEPT !.session = None, !.close_session = FALSE]
    /\ Step(t, "done", None, NoOutcome, Pending(t))
    /\ UNCHANGED <<serial_number, buf, codec_locals, net>>

\* omnikinverter.py 215-218, requests/http.py 130-133: close()
Close ==
    /\ second.name = "close"
    /\ second.pc = "call"
    /\ IF owns_session(client)
       THEN Step("second", "session_close", client.session, NoOutcome, NoOutcome)
       ELSE Step("second", "done", None, NoOutcome, Return(None))
    /\ UNCHANGED <<serial_number, buf, codec_locals, client, sessions, net>>

\* await self.session.close() in close() is over; close() resets nothing
CloseDone ==
    /\ second.name = "close"
    /\ second.pc = "session_close"
    /\ sessions' = [sessions EXCEPT ![second.uses[1]] = "closed"]
    /\ Step("second", "done", None, NoOutcome, Return(None))
    /\ UNCHANGED <<serial_number, buf, codec_locals, client, net>>

----------------------------------------------------------------------------
(* A caller that awaits methods of one client one after the other, while a  *)
(* second coroutine calls close() whenever it likes                         *)

\* how many calls the caller makes, and how many times close() is called
MaxCalls == 2

NetIdle(p) ==
    [peer |-> p, connection |-> "none", opened |-> 0, written |-> <<>>,
     sent |-> 0, elapsed |-> 0, failure |-> "none"]

Clients ==
    {[klass |-> k, source_type |-> st, credentials |-> cr, session |-> se,
      close_session |-> FALSE] :
        k \in Klasses, st \in SourceTypes, cr \in BOOLEAN,
        se \in {None, <<CallerSession>>}}

\* the fields that matter to the class and source type at hand
Configurations ==
    {<<c, sn, p>> \in Clients \X {None, Wide(1)} \X {"reply", "reset_read"} :
        /\ c.klass = "OmnikTcpRequest" =>
              c.source_type = "tcp" /\ ~c.credentials /\ c.session = None
        /\ c.klass = "OmnikHttpRequest" => c.source_type \in HttpSourceTypes
        /\ c.klass = "OmnikHttpRequest" \/ c.source_type # "tcp" =>
              sn = None /\ p = "reply"
        /\ c.source_type # "html" => ~c.credentials}

InitClient ==
    /\ CodecIdle
    /\ pc = "call"
    /\ \E cf \in Configurations :
         /\ client = cf[1]
         /\ serial_number = cf[2]
         /\ net = NetIdle(cf[3])
    /\ sessions = IF client.session = None THEN NoSessions
                  ELSE (CallerSession :> "open")
    /\ \E name \in Calls(client.klass) : call = [name |-> name, n |-> 1, uses |-> None]
    /\ pending = NoOutcome
    /\ second = NoTask

\* the caller's next call on the same client
NextCall ==
    /\ Finished
    /\ call.n < MaxCalls
    /\ \E name \in Calls(client.klass) :
         call' = [name |-> name, n |-> call.n + 1, uses |-> None]
    /\ pc' = "call"
    /\ buf' = <<>>
    /\ data' = <<>>
    /\ message_start' = -1
    /\ length' = 0
    /\ message' = <<>>
    /\ cur' = <<>>
    /\ nyield' = 0
    /\ info' = None
    /\ log' = {}
    /\ outcome' = NoOutcome
    /\ inverter' = NoOutcome
    /\ net' = NetIdle(net.peer)
    /\ UNCHANGED <<serial_number, flip, previous, client, sessions, pending, second>>

\* the second coroutine calls close()
CallClose ==
    /\ second.pc = "done"
    /\ second.n < MaxCalls
    /\ client.klass # "OmnikTcpRequest"
    /\ second' = [NoTask EXCEPT !.name = "close", !.n = second.n + 1, !.pc = "call"]
    /\ UNCHANGED <<serial_number, buf, codec_locals, outcome, pc, client,
                   sessions, net, call, pending>>

NextClient ==
    \/ \E t \in Tasks : RequestStart(t)
    \/ \E t \in Tasks : HttpResponse(t)
    \/ \E t \in Tasks : ResponseBody(t)
    \/ \E t \in Tasks : SessionClose(t)
    \/ Close
    \/ CloseDone
    \/ Dispatch
    \/ NextCall
    \/ CallClose
    \/ NextTcp

SpecClient == InitClient /\ [][NextClient]_vars

----------------------------------------------------------------------------
\* C27: a session supplied by the caller is never closed or replaced by the
\* client: whatever request() and close() calls have run or are running,
\* client.session is still the caller's session and that session is open;
\* and _close_session is True only while client.session is a session the
\* client created itself.
CallerSupplied == CallerSession \in DOMAIN sessions

C27_CallerSession ==
    /\ CallerSupplied =>
          /\ client.session = <<CallerSession>>
          /\ sessions[CallerSession] = "open"
    /\ client.close_session =>
          /\ client.session # None
          /\ client.session[1] # CallerSession

C27_Witness ==
    /\ CallerSupplied
    /\ call.n = MaxCalls
    /\ call.name = "request"
    /\ Finished
    /\ outcome.kind = "raise"
    /\ second.name = "close"
    /\ second.pc = "done"
    /\ net.sent = 1

----------------------------------------------------------------------------
\* C28: when the client had no session and created one for a request, then
\* once request() has returned or raised, that session has been closed,
\* client.session is None and _close_session is False: on success, on every
\* error path, and when close() runs concurrently with the request.
C28_OwnSessionClosed ==
    (Finished /\ ~CallerSupplied) =>
        /\ client.session = None
        /\ ~client.close_session
        /\ \A i \in DOMAIN sessions : sessions[i] = "closed"

\* what holds of OmnikInverter.request, whose finally block cleans up
C28_InverterCleans ==
    client.klass = "OmnikInverter" => C28_OwnSessionClosed

----------------------------------------------------------------------------
\* C29: with source_type 'html' and no username or password, inverter(),
\* device() and request() fail with OmnikInverterAuthError before any HTTP
\* request is sent to the device, and a session the client created for the
\* call does not stay open afterwards.
C29_HtmlNoAuth ==
    (client.source_type = "html" /\ ~client.credentials /\ HttpCall("main")) =>
        /\ net.sent = 0
        /\ pc \in {"call", "session_close", "done"}
        /\ Finished =>
             /\ outcome = AuthMissing
             /\ \A i \in DOMAIN sessions \ {CallerSession} : sessions[i] = "closed"

C29_Witness ==
    /\ client.source_type = "html"
    /\ ~client.credentials
    /\ client.klass = "OmnikInverter"
    /\ call.name = "inverter"
    /\ Finished
    /\ outcome.exc = AuthError
    /\ 1 \in DOMAIN sessions
    /\ sessions[1] = "closed"
    /\ client.session = None

----------------------------------------------------------------------------
\* C30: inverter() and device() perform no network I/O when none is needed.
\* With a source type other than 'json', 'html', 'javascript' and 'tcp' they
\* raise OmnikInverterError 'Unknown source type' without opening a session
\* or a connection; device() with source type 'tcp' returns a Device whose
\* signal_quality, firmware and ip_address are all None without opening a
\* TCP connection.
UnknownSourceType ==
    /\ client.klass = "OmnikInverter"
    /\ call.name \in {"inverter", "device"}
    /\ client.source_type \notin {"json", "html", "javascript", "tcp"}

DeviceOverTcp ==
    /\ client.klass = "OmnikInverter"
    /\ call.name = "device"
    /\ client.source_type = "tcp"

NoNetworkIO ==
    /\ pc \in {"call", "done"}
    /\ net = NetIdle(net.peer)
    /\ client.session \in {None, <<CallerSession>>}
    /\ \A i \in DOMAIN sessions \ {CallerSession} : sessions[i] = "closed"

C30_NoNetworkIO ==
    /\ UnknownSourceType =>
          /\ NoNetworkIO
          /\ Finished =>
               outcome = Raise(InverterError, "Unknown source type", <<client.source_type>>)
    /\ DeviceOverTcp =>
          /\ NoNetworkIO
          /\ Finished =>
               /\ outcome.kind = "return"
               /\ outcome.value[1].signal_quality = None
               /\ outcome.value[1].firmware = None
               /\ outcome.value[1].ip_address = None

C30_Witness ==
    /\ DeviceOverTcp
    /\ serial_number = Wide(1)
    /\ call.n = MaxCalls
    /\ Finished
    /\ outcome.kind = "return"

----------------------------------------------------------------------------
\* C31: for a TCP reply, the Inverter record's solar_current_power is the sum
\* of the elements of ac_output_power that are not None (0 when all three are
\* None), and its model and solar_rated_power are None.
Present(p) == p # None

----------------------------------------------------------------------------
\* C32 as stated: parse_messages requires the serial number of a reply frame
\* to be the serial_number argument; a frame with another serial makes it
\* fail with OmnikInverterPacketInvalidError 'Replied serial number X not
\* equal to request Y'.
SerialDiffers == cur # <<>> /\ cur[2] # serial_number

----------------------------------------------------------------------------
\* the first gate, in the stated order, that the frame f (from its start
\* marker on) violates
FrameGate(f) ==
    IF Len(f) < 2 \/ Len(f) - 1 < f[2] + MESSAGE_HEADER_SIZE THEN "length"
    ELSE LET L == f[2]
         IN IF SumBytes(SubSeq(f, 2, L + 12)) % 256 # f[L + 13] THEN "checksum"
            ELSE IF f[3] # MESSAGE_RECV_SEP THEN "separator"
            ELSE IF SubSeq(f, 5, 8) # SubSeq(f, 9, 12) THEN "serial"
            ELSE IF f[4] \notin {MESSAGE_TYPE_INFORMATION_REPLY, MESSAGE_TYPE_STRING}
              THEN "type"
            ELSE IF Len(f) < L + 14 \/ f[L + 14] # MESSAGE_END THEN "end"
            ELSE "none"

GateError(g) ==
    CASE g = "length" -> "Could only read"
      [] g = "checksum" -> "Checksum mismatch"
      [] g = "separator" -> "Invalid receiver separator"
      [] g = "serial" -> "Serial number mismatch in reply"
      [] g = "type" -> "Unknown Omnik message type"
      [] g = "end" -> "Invalid end byte"

FailedAtGate(g, at, result) ==
    /\ at = "done"
    /\ result.kind = "raise"
    /\ result.exc = PacketInvalid
    /\ result.msg = GateError(g)

\* whether handling the tuple t raises an error that no gate stands for
DecodeFails(t) ==
    LET h == parse_messages_body(t[2], None, t)
    IN h.raised /\ message_kind(t[1]) # "unknown"

\* C33: the gates of a frame run in the order truncated length, checksum,
\* receiver separator, double-serial equality, message type, end marker, and
\* the first one the frame violates is the error of the call; a frame that
\* violates none of the gates before the one being checked goes on to the next.
C33_GateOrder ==
    [][/\ (pc = "loop" /\ data # <<>> /\ Head(data) = MESSAGE_START) =>
            LET g == FrameGate(data)
            IN IF g \in {"length", "checksum", "separator", "serial"}
                 THEN FailedAtGate(g, pc', outcome') ELSE pc' = "body"
       /\ pc = "body" =>
            LET g == FrameGate(<<MESSAGE_START>> \o data)
            IN IF g = "type" THEN FailedAtGate(g, pc', outcome') ELSE pc' = "resume"
       /\ pc = "resume" =>
            LET g == FrameGate(<<MESSAGE_START>> \o data)
            IN IF g = "end" THEN FailedAtGate(g, pc', outcome') ELSE pc' = "loop"]_vars

\* the same order for the frames whose header can be read, whose payload
\* decodes and which are followed by at least one byte
C33_GateOrderDecoded ==
    [][/\ (pc = "loop" /\ Len(data) >= 2 /\ Head(data) = MESSAGE_START) =>
            LET g == FrameGate(data)
            IN IF g \in {"length", "checksum", "separator", "serial"}
                 THEN FailedAtGate(g, pc', outcome') ELSE pc' = "body"
       /\ (pc = "body" /\ ~DecodeFails(cur)) =>
            LET g == FrameGate(<<MESSAGE_START>> \o data)
            IN IF g = "type" THEN FailedAtGate(g, pc', outcome') ELSE pc' = "resume"
       /\ (pc = "resume" /\ Len(data) > length) =>
            LET g == FrameGate(<<MESSAGE_START>> \o data)
            IN IF g = "end" THEN FailedAtGate(g, pc', outcome') ELSE pc' = "loop"]_vars

----------------------------------------------------------------------------
(* _unpack_messages on its own: the consumer takes every tuple it yields *)

MaxFrames == 3

\* well-formed frames of every type, with payloads of several lengths, some
\* made of the bytes that mark a frame
WellFormedFrames ==
    {ValidFrame(MESSAGE_TYPE_STRING, 1, PayloadEmpty),
     ValidFrame(MESSAGE_TYPE_STRING, 256, <<MESSAGE_END>>),
     ValidFrame(0, 1, <<MESSAGE_START, 0, MESSAGE_RECV_SEP>>),
     ValidFrame(TRAILING_GARBAGE, 65535, <<TRAILING_GARBAGE, TRAILING_GARBAGE>>),
     ValidFrame(MESSAGE_TYPE_INFORMATION_REPLY, 256, PayloadInfoShort),
     ValidFrame(MESSAGE_TYPE_INFORMATION_REPLY, 1, PayloadInfoFirmware)}

RECURSIVE Concatenations(_)
Concatenations(n) ==
    IF n = 0 THEN {<<>>}
    ELSE LET C == Concatenations(n - 1)
         IN C \cup {c \o f : c \in C, f \in WellFormedFrames}

InitUnpack ==
    /\ serial_number = Wide(1)
    /\ \E bytes \in Concatenations(MaxFrames) : Start(bytes)
    /\ flip = NoFlip

\* the consumer receives the yielded tuple and asks for the next one
TakeTuple ==
    /\ pc = "body"
    /\ pc' = "resume"
    /\ UNCHANGED <<serial_number, buf, data, message_start, length, message,
                   cur, nyield, info, log, outcome, flip, inverter, previous,
                   client_vars>>

NextUnpack ==
    \/ UnpackMessagesNext
    \/ TakeTuple
    \/ UnpackMessagesResume

SpecUnpack == InitUnpack /\ [][NextUnpack]_vars

\* offset in bytes of the i-th frame (i from 1) when every frame occupies its
\* length byte + 14 bytes
RECURSIVE FrameOffset(_, _)
FrameOffset(bytes, i) ==
    IF i = 1 THEN 0
    ELSE LET o == FrameOffset(bytes, i - 1) IN o + bytes[o + 2] + 14

\* type, serial and payload of the frame at offset o
FrameTuple(bytes, o) ==
    <<bytes[o + 4], IntFromLittle4(SubSeq(bytes, o + 5, o + 8)),
      SubSeq(bytes, o + 13, o + 12 + bytes[o + 2])>>

\* C34: for a buffer of N well-formed frames, _unpack_messages yields exactly
\* N tuples in buffer order, the i-th being the type, serial and L_i payload
\* bytes of frame i, each frame taking L_i + 14 bytes, and then stops without
\* an error.
C34_FramesInOrder ==
    LET N == FrameCount(buf, 0)
    IN /\ pc # "done"
       /\ nyield <= N
       /\ pc \in {"body", "resume"} =>
            /\ cur = FrameTuple(buf, FrameOffset(buf, nyield))
            /\ Len(cur[3]) = buf[FrameOffset(buf, nyield) + 2]
            /\ Consumed = FrameOffset(buf, nyield) + 1
       /\ pc = "loop" => Consumed = FrameOffset(buf, nyield + 1)
       /\ pc = "exhausted" => nyield = N /\ data = <<>>

C34_Witness ==
    /\ pc = "resume"
    /\ nyield = 3
    /\ FrameCount(buf, 0) = 3
    /\ buf[2] = 3
    /\ buf[FrameOffset(buf, 2) + 2] = 1
    /\ buf[FrameOffset(buf, 3) + 2] = Len(PayloadInfoFirmware)
    /\ cur = <<MESSAGE_TYPE_INFORMATION_REPLY, Wide(1), PayloadInfoFirmware>>

----------------------------------------------------------------------------
\* every frame of bytes passes every gate: a run of valid frames of known
\* types up to the end of the buffer or up to a trailer of 0xFF bytes
AllFramesPass(bytes) ==
    /\ FramesEnd(bytes, 0) = Len(bytes) \/ FramesThenGarbage(bytes)
    /\ Len(InformationReplies(bytes)) + Len(Strings(bytes)) = FrameCount(bytes, 0)

\* C35: parse_messages returns a mapping only if every frame of the buffer
\* passed every gate; when a frame, an end marker or the 0xFF trailer fails,
\* also after an information reply has been decoded, the call raises and
\* returns nothing.
C35_NoPartialResult ==
    /\ outcome.kind = "return" => AllFramesPass(buf)
    /\ (pc \in {"done", "inverter"} /\ ~AllFramesPass(buf)) => outcome.kind = "raise"

C35_Witness ==
    /\ pc = "done"
    /\ info # None
    /\ nyield = 2
    /\ outcome.kind = "raise"
    /\ ~AllFramesPass(buf)

----------------------------------------------------------------------------
\* a measure of what is left of the call: the bytes the generator still holds
\* and how far the current iteration has come
StepsLeft(at, d) ==
    6 * Len(d) + (CASE at = "body" -> 5
                    [] at = "resume" -> 4
                    [] at = "loop" -> 3
                    [] at = "exhausted" -> 2
                    [] at = "done" -> 1
                    [] OTHER -> 0)

\* C36 as stated: at most Len(buf) / 14 frames are yielded
C36_AtMostLenOver14 == nyield * 14 <= Len(buf)

\* C36, amended: every step of the call brings it nearer to its end, an
\* iteration that does not end the stream takes at least 14 bytes off the
\* remaining buffer, and at most (Len(buf) + 1) / 14 frames are yielded, a
\* frame being yielded before its end marker is looked for.
C36_Terminates ==
    [][/\ StepsLeft(pc', data') < StepsLeft(pc, data)
       /\ Len(data') <= Len(data)
       /\ (pc = "loop" /\ pc' = "body") => Len(data') = Len(data) - 1
       /\ (pc = "resume" /\ pc' = "loop") => (Len(data) + 1) - Len(data') >= 14
       /\ (pc \in {"loop", "resume"} /\ pc' \notin {"body", "loop"}) =>
            pc' \in {"exhausted", "done"}
       /\ pc' = "loop" => nyield' * 14 <= Len(buf') - Len(data')
       /\ nyield' * 14 <= Len(buf') + 1]_vars

C36_Witness ==
    /\ pc = "loop"
    /\ nyield = 2
    /\ Consumed > 28
    /\ data # <<>>

----------------------------------------------------------------------------
\* C37: a structurally valid frame of type 0xF0 never makes parse_messages
\* fail, whatever its payload: handling it raises nothing, logs the text
\* message, leaves the decoded fields alone and goes on to the next frame.
C37_StringNeverFails ==
    [][(pc = "body" /\ cur[1] = MESSAGE_TYPE_STRING) =>
          /\ pc' = "resume"
          /\ outcome' = NoOutcome
          /\ info' = info
          /\ "warning: Omnik sent text message" \in log']_vars

\* the same for the string frames whose payload is valid UTF-8
C37_TextNeverFails ==
    [][(pc = "body" /\ cur[1] = MESSAGE_TYPE_STRING /\ Utf8Decode(cur[3]).ok) =>
          /\ pc' = "resume"
          /\ outcome' = NoOutcome
          /\ info' = info
          /\ "warning: Omnik sent text message" \in log']_vars

----------------------------------------------------------------------------
(* Two coroutines await request() on one OmnikInverter that was given no    *)
(* session: the calls interleave at their awaits                            *)

InitOverlap ==
    /\ CodecIdle
    /\ pc = "call"
    /\ \E st \in HttpSourceTypes, cr \in BOOLEAN :
         /\ st # "html" => ~cr
         /\ client = [klass |-> "OmnikInverter", source_type |-> st,
                      credentials |-> cr, session |-> None, close_session |-> FALSE]
    /\ serial_number = None
    /\ net = NetIdle("reply")
    /\ sessions = NoSessions
    /\ call = [name |-> "request", n |-> 1, uses |-> None]
    /\ pending = NoOutcome
    /\ second = NoTask

\* the second coroutine calls request()
CallRequest ==
    /\ second.pc = "done"
    /\ second.n < MaxCalls
    /\ client.klass = "OmnikInverter"
    /\ second' = [NoTask EXCEPT !.name = "request", !.n = second.n + 1, !.pc = "call"]
    /\ UNCHANGED <<serial_number, buf, codec_locals, outcome, pc, client,
                   sessions, net, call, pending>>

NextOverlap ==
    \/ \E t \in Tasks : RequestStart(t)
    \/ \E t \in Tasks : HttpResponse(t)
    \/ \E t \in Tasks : ResponseBody(t)
    \/ \E t \in Tasks : SessionClose(t)
    \/ CallRequest

SpecOverlap == InitOverlap /\ [][NextOverlap]_vars

\* task t is in its HTTP exchange
InFlight(t) == Pc(t) \in {"http_request", "response_read", "response_text"}

\* no call's cleanup has closed or dropped the session an exchange is using
SharedSessionKept ==
    \A t \in Tasks :
        InFlight(t) => sessions[Uses(t)[1]] = "open" /\ client.session = Uses(t)

\* every session the client made is closed once no call is running
AllClosedAfterwards ==
    (pc = "done" /\ second.pc = "done") =>
        \A s \in DOMAIN sessions : sessions[s] = "closed"

\* C38: when two request() calls on an OmnikInverter without a caller's
\* session overlap, no call's cleanup closes the session, or resets
\* client.session, while the other call is still using it for its exchange;
\* and once both calls have finished every session the client made is closed.
C38_OverlapSafe == second.n <= 1 => SharedSessionKept /\ AllClosedAfterwards

\* the second half of C38 alone, for two calls
C38_TwoCallsClosed == second.n <= 1 => AllClosedAfterwards

====
